---- MODULE Spec2Model ----
(***************************************************************************)
(* Team, membership and join-request lifecycle of TeamService              *)
(* (src/src/apps/team/services/team.py) over the persistent store          *)
(* (src/src/models).  One action per service entry point.  A call reads    *)
(* the committed rows, runs the handler's checks in source order and, when *)
(* they pass, applies the handler's writes in one transaction.  Under Spec *)
(* calls run one at a time; under SpecConc a call is split at the point    *)
(* where its reads are done and its writes are flushed and committed, so   *)
(* two calls can both pass their checks before either commits.  SpecTeams, *)
(* SpecListing and SpecRequests start from two teams and run the member-   *)
(* management and the listing calls on them; SpecAbort adds aborted calls, *)
(* SpecCreate concurrent create_team calls, SpecLifecycle the life cycle   *)
(* of one membership, SpecResolve the owner's reviews of pending requests  *)
(* under fairness.  SpecUser is the sign-up, sign-in and get-self path of  *)
(* UserService (src/src/apps/user/services/user.py).                       *)
(***************************************************************************)
EXTENDS Integers, Sequences, FiniteSets, Bags, TLC

\* ------------------------------------------------------------------ bounds
MaxTeams == 1
MaxRequests == 2
MaxReviews == 2
MaxUsers == 2

\* ------------------------------------------------------------- value sets
Users == {"A", "B", "C"}
CreateNames == {"Widgets"}
UpdateNames == {"Gadgets"}
Descriptions == {"tools"}
Codes == 1..MaxTeams
TeamIds == 1..MaxTeams
RequestIds == 1..MaxRequests
Workers == {1, 2}
BothTeamIds == {1, 2}
BothTeamCodes == {1, 2}

None == "None"
NULL == 0

TeamRole == {"OWNER", "ADMIN", "MEMBER"}
JoinRequestStatus == {"PENDING", "APPROVED", "DECLINED"}
TeamStatus == {"ACTIVE", "DELETED"}

VARIABLES
  teams,          \* table teams: row id = position (creation order)
  team_members,   \* table team_members: bag of rows [team_id, user_id, role]
  join_requests,  \* table join_requests: row id = position; DeletedRow once deleted
  now,            \* the store clock read by review_join_request
  txn,            \* per worker: the call whose writes are not yet flushed
  last,           \* the call that has just returned, with its result, until
                  \* the response is handed to the caller
  users,          \* table users: row id = position (creation order)
  signups,        \* the sign-up data the clients keep: what they submitted
                  \* to each create_user call that succeeded
  reply           \* the last call of the user service, with its result

vars == <<teams, team_members, join_requests, now, txn, last, users, signups, reply>>

\* -------------------------------------------------------------- the store
Store == [teams |-> teams, team_members |-> team_members,
          join_requests |-> join_requests, now |-> now]

TeamModel(owner_id, name, description, team_code) ==
  [owner_id |-> owner_id, name |-> name, description |-> description,
   team_code |-> team_code, is_active |-> TRUE, status |-> "ACTIVE"]

TeamMemberModel(team_id, user_id, role) ==
  [team_id |-> team_id, user_id |-> user_id, role |-> role]

JoinRequestModel(team_id, requested_by) ==
  [team_id |-> team_id, requested_by |-> requested_by, status |-> "PENDING",
   reviewed_by |-> None, reviewed_at |-> NULL]

DeletedRow ==
  [team_id |-> NULL, requested_by |-> None, status |-> "GONE",
   reviewed_by |-> None, reviewed_at |-> NULL]

\* select(TeamModel).where(TeamModel.id == team_id) finds a row
TeamExists(s, team_id) == team_id \in 1..Len(s.teams)

\* select(TeamModel).where(TeamModel.team_code == code): the matching ids
TeamsByCode(s, code) == {t \in 1..Len(s.teams) : s.teams[t].team_code = code}

\* select(TeamMemberModel).where(team_id == t, user_id == u): the matching rows
MemberRows(s, team_id, user_id) ==
  {m \in BagToSet(s.team_members) : m.team_id = team_id /\ m.user_id = user_id}

\* number of team_members rows of (team_id, user_id)
MemberCopies(s, team_id, user_id) ==
  LET rows == MemberRows(s, team_id, user_id)
      RECURSIVE Sum(_)
      Sum(S) == IF S = {} THEN 0
                ELSE LET m == CHOOSE x \in S : TRUE
                     IN CopiesIn(m, s.team_members) + Sum(S \ {m})
  IN Sum(rows)

\* func.count(TeamMemberModel.id) where team_id == t
MemberCount(s, team_id) ==
  LET rows == {m \in BagToSet(s.team_members) : m.team_id = team_id}
      RECURSIVE Sum(_)
      Sum(S) == IF S = {} THEN 0
                ELSE LET m == CHOOSE x \in S : TRUE
                     IN CopiesIn(m, s.team_members) + Sum(S \ {m})
  IN Sum(rows)

\* TeamService._get_user_team_role: the role of the row found, or None
get_user_team_role(s, team_id, user_id) ==
  LET rows == MemberRows(s, team_id, user_id)
  IN IF rows = {} THEN None ELSE (CHOOSE m \in rows : TRUE).role

\* ids of the PENDING join requests of (team_id, user_id)
PendingRequests(s, team_id, user_id) ==
  {r \in 1..Len(s.join_requests) :
     /\ s.join_requests[r].team_id = team_id
     /\ s.join_requests[r].requested_by = user_id
     /\ s.join_requests[r].status = "PENDING"}

RequestExists(s, request_id) ==
  /\ request_id \in 1..Len(s.join_requests)
  /\ s.join_requests[request_id] # DeletedRow

\* ------------------------------------------------------ store constraints
\* uq_team_members_team_user: UniqueConstraint("team_id", "user_id")
uq_team_members_team_user(s) ==
  \A m \in BagToSet(s.team_members) : MemberCopies(s, m.team_id, m.user_id) <= 1

\* the partial unique index is missing from the store
uq_join_request_not_enforced(s) == TRUE

\* uq_join_request_team_user_pending: partial unique index over PENDING rows
uq_join_request_team_user_pending(s) ==
  \A r \in 1..Len(s.join_requests) :
    s.join_requests[r].status = "PENDING" =>
      Cardinality(PendingRequests(s, s.join_requests[r].team_id,
                                  s.join_requests[r].requested_by)) <= 1

\* the unique index on teams.team_code is missing from the store
uq_team_code_not_enforced(s) == TRUE

\* teams.team_code: mapped_column(index=True, unique=True)
uq_team_code(s) ==
  \A t \in 1..Len(s.teams) : TeamsByCode(s, s.teams[t].team_code) = {t}

Constraints(s) ==
  /\ uq_team_members_team_user(s)
  /\ uq_join_request_team_user_pending(s)
  /\ uq_team_code(s)

\* ----------------------------------------------------- authorization guard
\* TeamService._validate_team_membership: TRUE when it returns, FALSE when it
\* raises UnauthorizedTeamAccess
validate_team_membership(s, team_id, user_id) ==
  MemberRows(s, team_id, user_id) # {}

\* TeamService._validate_team_role: TRUE when it returns, FALSE when it raises
\* UnauthorizedTeamAccess
validate_team_role(s, team_id, user_id, required_roles) ==
  /\ validate_team_membership(s, team_id, user_id)
  /\ get_user_team_role(s, team_id, user_id) \in required_roles

\* TeamService._check_team_not_deleted: TRUE when it returns, FALSE when it
\* raises TeamNotFound
check_team_not_deleted(team) == team.status # "DELETED"

\* ------------------------------------------------------------ create_team
\* generate_team_code: the codes the generator may return, those of the
\* code space that no stored team uses
generate_team_code(s, codes) == {c \in codes : TeamsByCode(s, c) = {}}

\* create_team that inserts the team and no TeamMember row for its owner
create_team_writes_without_owner_row(s, user, name, description, team_code) ==
  [s EXCEPT !.teams = Append(@, TeamModel(user, name, description, team_code))]

create_team_writes(s, user, name, description, team_code) ==
  [s EXCEPT
     !.teams = Append(@, TeamModel(user, name, description, team_code)),
     !.team_members =
        @ (+) SetToBag({TeamMemberModel(Len(s.teams) + 1, user, "OWNER")})]

\* ------------------------------------------------------------ update_team
\* update_team without its check on deleted teams
update_team_checks_on_deleted(s, team_id, user) ==
  IF ~TeamExists(s, team_id) THEN "TeamNotFound"
  ELSE IF ~validate_team_role(s, team_id, user, {"OWNER", "ADMIN"})
       THEN "UnauthorizedTeamAccess"
  ELSE "ok"

update_team_checks(s, team_id, user) ==
  IF ~TeamExists(s, team_id) THEN "TeamNotFound"
  ELSE IF ~check_team_not_deleted(s.teams[team_id]) THEN "TeamNotFound"
  ELSE IF ~validate_team_role(s, team_id, user, {"OWNER", "ADMIN"})
       THEN "UnauthorizedTeamAccess"
  ELSE "ok"

\* update_team that also writes the fields the request left out
update_team_writes_overwrites_absent(s, team_id, name, description) ==
  [s EXCEPT
     !.teams[team_id].name = name,
     !.teams[team_id].description = description]

update_team_writes(s, team_id, name, description) ==
  [s EXCEPT
     !.teams[team_id].name = IF name # None THEN name ELSE @,
     !.teams[team_id].description = IF description # None THEN description ELSE @]

\* toggle_team_active_status without its check that the team is not deleted
toggle_team_active_status_checks_on_deleted(s, team_id, owner) ==
  IF ~TeamExists(s, team_id) THEN "TeamNotFound"
  ELSE IF ~validate_team_role(s, team_id, owner, {"OWNER"})
       THEN "UnauthorizedTeamAccess"
  ELSE "ok"

\* toggle_team_active_status that also accepts an ADMIN of the team
toggle_team_active_status_checks_admin_allowed(s, team_id, owner) ==
  IF ~TeamExists(s, team_id) THEN "TeamNotFound"
  ELSE IF ~check_team_not_deleted(s.teams[team_id]) THEN "TeamNotFound"
  ELSE IF ~validate_team_role(s, team_id, owner, {"OWNER", "ADMIN"})
       THEN "UnauthorizedTeamAccess"
  ELSE "ok"

\* ---------------------------------------------- toggle_team_active_status
toggle_team_active_status_checks(s, team_id, owner) ==
  IF ~TeamExists(s, team_id) THEN "TeamNotFound"
  ELSE IF ~check_team_not_deleted(s.teams[team_id]) THEN "TeamNotFound"
  ELSE IF ~validate_team_role(s, team_id, owner, {"OWNER"})
       THEN "UnauthorizedTeamAccess"
  ELSE "ok"

toggle_team_active_status_writes(s, team_id, is_active) ==
  [s EXCEPT !.teams[team_id].is_active = is_active]

\* ------------------------------------------------------------ delete_team
\* delete_team that lets an ADMIN through
delete_team_checks_admin_allowed(s, team_id, owner) ==
  IF ~TeamExists(s, team_id) THEN "TeamNotFound"
  ELSE IF ~validate_team_role(s, team_id, owner, {"OWNER", "ADMIN"})
       THEN "UnauthorizedTeamAccess"
  ELSE "ok"

delete_team_checks(s, team_id, owner) ==
  IF ~TeamExists(s, team_id) THEN "TeamNotFound"
  ELSE IF ~validate_team_role(s, team_id, owner, {"OWNER"})
       THEN "UnauthorizedTeamAccess"
  ELSE "ok"

delete_team_writes(s, team_id) ==
  [s EXCEPT !.teams[team_id].status = "DELETED"]

\* promote_to_admin without its two CannotModifyOwner guards
promote_to_admin_checks_owner_unguarded(s, team_id, user_id, owner) ==
  IF ~TeamExists(s, team_id) THEN "TeamNotFound"
  ELSE IF ~check_team_not_deleted(s.teams[team_id]) THEN "TeamNotFound"
  ELSE IF ~validate_team_role(s, team_id, owner, {"OWNER"})
       THEN "UnauthorizedTeamAccess"
  ELSE IF MemberRows(s, team_id, user_id) = {} THEN "TeamMemberNotFound"
  ELSE "ok"

\* remove_member_from_team without its two CannotModifyOwner guards
remove_member_from_team_checks_owner_unguarded(s, team_id, user_id, owner) ==
  IF ~TeamExists(s, team_id) THEN "TeamNotFound"
  ELSE IF ~check_team_not_deleted(s.teams[team_id]) THEN "TeamNotFound"
  ELSE IF ~validate_team_role(s, team_id, owner, {"OWNER"})
       THEN "UnauthorizedTeamAccess"
  ELSE IF MemberRows(s, team_id, user_id) = {} THEN "TeamMemberNotFound"
  ELSE "ok"

\* promote_to_admin that refuses a target who is already ADMIN
promote_to_admin_checks_rejects_admin(s, team_id, user_id, owner) ==
  IF ~TeamExists(s, team_id) THEN "TeamNotFound"
  ELSE IF ~check_team_not_deleted(s.teams[team_id]) THEN "TeamNotFound"
  ELSE IF ~validate_team_role(s, team_id, owner, {"OWNER"})
       THEN "UnauthorizedTeamAccess"
  ELSE IF user_id = owner THEN "CannotModifyOwner"
  ELSE IF MemberRows(s, team_id, user_id) = {} THEN "TeamMemberNotFound"
  ELSE IF get_user_team_role(s, team_id, user_id) = "OWNER" THEN "CannotModifyOwner"
  ELSE IF get_user_team_role(s, team_id, user_id) = "ADMIN" THEN "BadRequestError"
  ELSE "ok"

\* ------------------------------------- promote / demote / remove: checks
\* promote_to_admin, demote_from_admin and remove_member_from_team run the
\* same sequence of checks before their write
promote_to_admin_checks(s, team_id, user_id, owner) ==
  IF ~TeamExists(s, team_id) THEN "TeamNotFound"
  ELSE IF ~check_team_not_deleted(s.teams[team_id]) THEN "TeamNotFound"
  ELSE IF ~validate_team_role(s, team_id, owner, {"OWNER"})
       THEN "UnauthorizedTeamAccess"
  ELSE IF user_id = owner THEN "CannotModifyOwner"
  ELSE IF MemberRows(s, team_id, user_id) = {} THEN "TeamMemberNotFound"
  ELSE IF get_user_team_role(s, team_id, user_id) = "OWNER" THEN "CannotModifyOwner"
  ELSE "ok"

demote_from_admin_checks(s, team_id, user_id, owner) ==
  IF ~TeamExists(s, team_id) THEN "TeamNotFound"
  ELSE IF ~check_team_not_deleted(s.teams[team_id]) THEN "TeamNotFound"
  ELSE IF ~validate_team_role(s, team_id, owner, {"OWNER"})
       THEN "UnauthorizedTeamAccess"
  ELSE IF user_id = owner THEN "CannotModifyOwner"
  ELSE IF MemberRows(s, team_id, user_id) = {} THEN "TeamMemberNotFound"
  ELSE IF get_user_team_role(s, team_id, user_id) = "OWNER" THEN "CannotModifyOwner"
  ELSE "ok"

remove_member_from_team_checks(s, team_id, user_id, owner) ==
  IF ~TeamExists(s, team_id) THEN "TeamNotFound"
  ELSE IF ~check_team_not_deleted(s.teams[team_id]) THEN "TeamNotFound"
  ELSE IF ~validate_team_role(s, team_id, owner, {"OWNER"})
       THEN "UnauthorizedTeamAccess"
  ELSE IF user_id = owner THEN "CannotModifyOwner"
  ELSE IF MemberRows(s, team_id, user_id) = {} THEN "TeamMemberNotFound"
  ELSE IF get_user_team_role(s, team_id, user_id) = "OWNER" THEN "CannotModifyOwner"
  ELSE "ok"

\* team_member.role = role on the row select(...).scalar() returns
SetRole(s, team_id, user_id, role) ==
  LET rows == MemberRows(s, team_id, user_id)
  IN IF rows = {} THEN s
     ELSE LET m == CHOOSE x \in rows : TRUE
          IN [s EXCEPT !.team_members =
                (@ (-) SetToBag({m})) (+) SetToBag({[m EXCEPT !.role = role]})]

promote_to_admin_writes(s, team_id, user_id) == SetRole(s, team_id, user_id, "ADMIN")

\* demote_from_admin that deletes the target's row
demote_from_admin_writes_drops_row(s, team_id, user_id) ==
  [s EXCEPT !.team_members =
     [m \in {x \in BagToSet(s.team_members) :
               ~(x.team_id = team_id /\ x.user_id = user_id)}
        |-> CopiesIn(m, s.team_members)]]

demote_from_admin_writes(s, team_id, user_id) == SetRole(s, team_id, user_id, "MEMBER")

\* remove_member_from_team that deletes the pair's requests of every status
remove_member_from_team_writes_purges_all(s, team_id, user_id) ==
  LET kept == [m \in {x \in BagToSet(s.team_members) :
                        ~(x.team_id = team_id /\ x.user_id = user_id)}
                 |-> CopiesIn(m, s.team_members)]
  IN [s EXCEPT
        !.join_requests =
           [r \in 1..Len(s.join_requests) |->
              IF /\ s.join_requests[r].team_id = team_id
                 /\ s.join_requests[r].requested_by = user_id
              THEN DeletedRow ELSE s.join_requests[r]],
        !.team_members = kept]

\* delete(JoinRequestModel).where(team, user, status == APPROVED), then
\* delete(TeamMemberModel).where(team, user)
remove_member_from_team_writes(s, team_id, user_id) ==
  LET kept == [m \in {x \in BagToSet(s.team_members) :
                        ~(x.team_id = team_id /\ x.user_id = user_id)}
                 |-> CopiesIn(m, s.team_members)]
  IN [s EXCEPT
        !.join_requests =
           [r \in 1..Len(s.join_requests) |->
              IF /\ s.join_requests[r].team_id = team_id
                 /\ s.join_requests[r].requested_by = user_id
                 /\ s.join_requests[r].status = "APPROVED"
              THEN DeletedRow ELSE s.join_requests[r]],
        !.team_members = kept]

\* create_join_request with steps 1 and 2 swapped: membership before PENDING
create_join_request_checks_member_first(s, team_code, user) ==
  IF TeamsByCode(s, team_code) = {} THEN "InvalidTeamCode"
  ELSE LET team_id == CHOOSE t \in TeamsByCode(s, team_code) : TRUE
       IN IF s.teams[team_id].status = "DELETED" THEN "InvalidTeamCode"
          ELSE IF MemberRows(s, team_id, user) # {} THEN "UserAlreadyMember"
          ELSE IF PendingRequests(s, team_id, user) # {} THEN "DuplicateJoinRequest"
          ELSE "ok"

\* create_join_request that skips the deleted check of the resolved team
create_join_request_checks_on_deleted(s, team_code, user) ==
  IF TeamsByCode(s, team_code) = {} THEN "InvalidTeamCode"
  ELSE LET team_id == CHOOSE t \in TeamsByCode(s, team_code) : TRUE
       IN IF PendingRequests(s, team_id, user) # {} THEN "DuplicateJoinRequest"
          ELSE IF MemberRows(s, team_id, user) # {} THEN "UserAlreadyMember"
          ELSE "ok"

\* ---------------------------------------------------- create_join_request
create_join_request_checks(s, team_code, user) ==
  IF TeamsByCode(s, team_code) = {} THEN "InvalidTeamCode"
  ELSE LET team_id == CHOOSE t \in TeamsByCode(s, team_code) : TRUE
       IN IF s.teams[team_id].status = "DELETED" THEN "InvalidTeamCode"
          ELSE IF PendingRequests(s, team_id, user) # {} THEN "DuplicateJoinRequest"
          ELSE IF MemberRows(s, team_id, user) # {} THEN "UserAlreadyMember"
          ELSE "ok"

create_join_request_writes(s, team_code, user) ==
  LET team_id == CHOOSE t \in TeamsByCode(s, team_code) : TRUE
  IN [s EXCEPT !.join_requests = Append(@, JoinRequestModel(team_id, user))]

\* review_join_request that lets an ADMIN of the team review
review_join_request_checks_admin_allowed(s, request_id, owner, action) ==
  IF action \notin {"APPROVED", "DECLINED"} THEN "BadRequestError"
  ELSE IF ~RequestExists(s, request_id) THEN "JoinRequestNotFound"
  ELSE LET join_request == s.join_requests[request_id]
       IN IF ~check_team_not_deleted(s.teams[join_request.team_id])
            THEN "TeamNotFound"
          ELSE IF ~validate_team_role(s, join_request.team_id, owner,
                                      {"OWNER", "ADMIN"})
            THEN "UnauthorizedTeamAccess"
          ELSE IF /\ action = "APPROVED"
                  /\ MemberRows(s, join_request.team_id,
                                join_request.requested_by) # {}
            THEN "UserAlreadyMember"
          ELSE "ok"

\* ---------------------------------------------------- review_join_request
\* review_join_request that takes any status as the action
review_join_request_checks_any_action(s, request_id, owner, action) ==
  IF ~RequestExists(s, request_id) THEN "JoinRequestNotFound"
  ELSE LET join_request == s.join_requests[request_id]
       IN IF ~check_team_not_deleted(s.teams[join_request.team_id])
            THEN "TeamNotFound"
          ELSE IF ~validate_team_role(s, join_request.team_id, owner, {"OWNER"})
            THEN "UnauthorizedTeamAccess"
          ELSE IF /\ action = "APPROVED"
                  /\ MemberRows(s, join_request.team_id,
                                join_request.requested_by) # {}
            THEN "UserAlreadyMember"
          ELSE "ok"

\* review_join_request that refuses every review of a requester who is
\* already a member, DECLINED included
review_join_request_checks_member_blocks_decline(s, request_id, owner, action) ==
  IF action \notin {"APPROVED", "DECLINED"} THEN "BadRequestError"
  ELSE IF ~RequestExists(s, request_id) THEN "JoinRequestNotFound"
  ELSE LET join_request == s.join_requests[request_id]
       IN IF ~check_team_not_deleted(s.teams[join_request.team_id])
            THEN "TeamNotFound"
          ELSE IF ~validate_team_role(s, join_request.team_id, owner, {"OWNER"})
            THEN "UnauthorizedTeamAccess"
          ELSE IF MemberRows(s, join_request.team_id,
                             join_request.requested_by) # {}
            THEN "UserAlreadyMember"
          ELSE "ok"

review_join_request_checks(s, request_id, owner, action) ==
  IF action \notin {"APPROVED", "DECLINED"} THEN "BadRequestError"
  ELSE IF ~RequestExists(s, request_id) THEN "JoinRequestNotFound"
  ELSE LET join_request == s.join_requests[request_id]
       IN IF ~check_team_not_deleted(s.teams[join_request.team_id])
            THEN "TeamNotFound"
          ELSE IF ~validate_team_role(s, join_request.team_id, owner, {"OWNER"})
            THEN "UnauthorizedTeamAccess"
          ELSE IF /\ action = "APPROVED"
                  /\ MemberRows(s, join_request.team_id,
                                join_request.requested_by) # {}
            THEN "UserAlreadyMember"
          ELSE "ok"

\* review_join_request that marks the request and adds no team member
review_join_request_writes_status_only(s, request_id, owner, action) ==
  [s EXCEPT
     !.join_requests[request_id] =
        [@ EXCEPT !.status = action, !.reviewed_by = owner, !.reviewed_at = s.now],
     !.now = @ + 1]

\* review_join_request that sets the status and leaves reviewed_by and
\* reviewed_at as they were
review_join_request_writes_without_reviewer(s, request_id, owner, action) ==
  LET join_request == s.join_requests[request_id]
  IN [s EXCEPT
        !.team_members =
           IF action = "APPROVED"
           THEN @ (+) SetToBag({TeamMemberModel(join_request.team_id,
                                                join_request.requested_by,
                                                "MEMBER")})
           ELSE @,
        !.join_requests[request_id] = [@ EXCEPT !.status = action],
        !.now = @ + 1]

review_join_request_writes(s, request_id, owner, action) ==
  LET join_request == s.join_requests[request_id]
  IN [s EXCEPT
        !.team_members =
           IF action = "APPROVED"
           THEN @ (+) SetToBag({TeamMemberModel(join_request.team_id,
                                                join_request.requested_by,
                                                "MEMBER")})
           ELSE @,
        !.join_requests[request_id] =
           [@ EXCEPT !.status = action, !.reviewed_by = owner,
                     !.reviewed_at = s.now],
        !.now = @ + 1]

\* get_team_by_id without its check on deactivated teams
get_team_by_id_ignores_inactive(s, team_id, user) ==
  IF ~TeamExists(s, team_id) THEN "TeamNotFound"
  ELSE IF MemberRows(s, team_id, user) = {} THEN "UnauthorizedTeamAccess"
  ELSE IF ~check_team_not_deleted(s.teams[team_id]) THEN "TeamNotFound"
  ELSE "ok"

\* ----------------------------------------------------------- read handlers
get_team_by_id(s, team_id, user) ==
  IF ~TeamExists(s, team_id) THEN "TeamNotFound"
  ELSE IF MemberRows(s, team_id, user) = {} THEN "UnauthorizedTeamAccess"
  ELSE IF ~check_team_not_deleted(s.teams[team_id]) THEN "TeamNotFound"
  ELSE IF /\ ~s.teams[team_id].is_active
          /\ get_user_team_role(s, team_id, user) = "MEMBER"
       THEN "TeamDeactivated"
  ELSE "ok"

\* list_team_members gated like get_team_by_id
list_team_members_hides_deactivated(s, team_id, user) ==
  IF ~TeamExists(s, team_id) THEN "TeamNotFound"
  ELSE IF ~check_team_not_deleted(s.teams[team_id]) THEN "TeamNotFound"
  ELSE IF ~validate_team_membership(s, team_id, user) THEN "UnauthorizedTeamAccess"
  ELSE IF /\ ~s.teams[team_id].is_active
          /\ get_user_team_role(s, team_id, user) = "MEMBER"
       THEN "TeamDeactivated"
  ELSE "ok"

list_team_members(s, team_id, user) ==
  IF ~TeamExists(s, team_id) THEN "TeamNotFound"
  ELSE IF ~check_team_not_deleted(s.teams[team_id]) THEN "TeamNotFound"
  ELSE IF ~validate_team_membership(s, team_id, user) THEN "UnauthorizedTeamAccess"
  ELSE "ok"

list_team_join_requests(s, team_id, owner) ==
  IF ~TeamExists(s, team_id) THEN "TeamNotFound"
  ELSE IF ~check_team_not_deleted(s.teams[team_id]) THEN "TeamNotFound"
  ELSE IF ~validate_team_role(s, team_id, owner, {"OWNER"})
       THEN "UnauthorizedTeamAccess"
  ELSE "ok"

\* get_join_request_by_id that also lets the team's admins read the request
get_join_request_by_id_admin_allowed(s, request_id, user) ==
  IF ~RequestExists(s, request_id) THEN "JoinRequestNotFound"
  ELSE IF /\ s.join_requests[request_id].requested_by # user
          /\ ~validate_team_role(s, s.join_requests[request_id].team_id, user,
                                 {"OWNER", "ADMIN"})
       THEN "UnauthorizedTeamAccess"
  ELSE "ok"

\* TeamService.get_join_request_by_id, the method the get_join_request route
\* calls: the request is visible to its requester and to the owner of its
\* team
get_join_request_by_id(s, request_id, user) ==
  IF ~RequestExists(s, request_id) THEN "JoinRequestNotFound"
  ELSE IF /\ s.join_requests[request_id].requested_by # user
          /\ ~validate_team_role(s, s.join_requests[request_id].team_id, user,
                                 {"OWNER"})
       THEN "UnauthorizedTeamAccess"
  ELSE "ok"

\* ------------------------------------------------- read handlers: results
\* UserModel.name of the users the calls are made by
UserName == [u \in Users |-> CASE u = "A" -> "Ann" [] u = "B" -> "Bob" [] OTHER -> "Cyd"]

\* TeamResponse(...) as get_team_by_id builds it: the owner's name and the
\* member count are looked up for the one team
TeamResponse(s, team_id, role) ==
  [id |-> team_id, owner_id |-> s.teams[team_id].owner_id,
   name |-> s.teams[team_id].name, description |-> s.teams[team_id].description,
   team_code |-> s.teams[team_id].team_code,
   is_active |-> s.teams[team_id].is_active, role |-> role,
   created_by |-> IF role = "OWNER" THEN "You"
                  ELSE IF s.teams[team_id].owner_id \in DOMAIN UserName
                       THEN UserName[s.teams[team_id].owner_id]
                  ELSE "",
   member_count |-> MemberCount(s, team_id)]

\* JoinRequestResponse(...) as the read handlers build it
JoinRequestResponse(s, request_id) ==
  [id |-> request_id, team_id |-> s.join_requests[request_id].team_id,
   team_name |-> s.teams[s.join_requests[request_id].team_id].name,
   requested_by |-> s.join_requests[request_id].requested_by,
   status |-> s.join_requests[request_id].status,
   reviewed_by |-> s.join_requests[request_id].reviewed_by,
   reviewed_at |-> s.join_requests[request_id].reviewed_at]

\* the orders in which a query with no ORDER BY may return these rows
Orderings(rows) ==
  {q \in [1..Cardinality(rows) -> rows] :
     \A i, j \in 1..Cardinality(rows) : i # j => q[i] # q[j]}

\* list_my_teams with the filter on deactivated teams left out
list_my_teams_shows_inactive(s, user) ==
  LET ids == SelectSeq([t \in 1..Len(s.teams) |-> t],
                       LAMBDA t : /\ MemberRows(s, t, user) # {}
                                  /\ s.teams[t].status # "DELETED")
  IN [i \in 1..Len(ids) |->
        TeamResponse(s, ids[i], get_user_team_role(s, ids[i], user))]

\* select team_id, count(id) ... where team_id in team_ids group by team_id:
\* one pass over the member rows, a count per team that has rows
RECURSIVE GroupCounts(_, _, _)
GroupCounts(bag, rows, acc) ==
  IF rows = {} THEN acc
  ELSE LET m == CHOOSE x \in rows : TRUE
           n == CopiesIn(m, bag)
       IN GroupCounts(bag, rows \ {m},
                      IF m.team_id \in DOMAIN acc
                      THEN [acc EXCEPT ![m.team_id] = @ + n]
                      ELSE acc @@ (m.team_id :> n))

\* list_my_teams whose count query is not grouped by team
list_my_teams_ungrouped_counts(s, user) ==
  LET ids == SelectSeq([t \in 1..Len(s.teams) |-> t],
                       LAMBDA t : /\ MemberRows(s, t, user) # {}
                                  /\ s.teams[t].status # "DELETED"
                                  /\ (s.teams[t].is_active
                                      \/ get_user_team_role(s, t, user) = "OWNER"))
      team_ids == {ids[i] : i \in 1..Len(ids)}
      owner_ids == {s.teams[t].owner_id : t \in team_ids}
      owners == [o \in owner_ids \cap DOMAIN UserName |-> UserName[o]]
      total == BagCardinality(
                 [m \in {x \in BagToSet(s.team_members) : x.team_id \in team_ids}
                    |-> CopiesIn(m, s.team_members)])
  IN [i \in 1..Len(ids) |->
        LET role == get_user_team_role(s, ids[i], user)
            owner_id == s.teams[ids[i]].owner_id
        IN [TeamResponse(s, ids[i], role) EXCEPT
              !.created_by = IF role = "OWNER" THEN "You"
                             ELSE IF owner_id \in DOMAIN owners THEN owners[owner_id]
                             ELSE "",
              !.member_count = total]]

\* TeamService.list_my_teams: the user's memberships joined with their teams,
\* oldest team first, without deleted teams and without deactivated teams
\* the user does not own; the owners' names and the member counts are
\* loaded for all listed teams at once
list_my_teams(s, user) ==
  LET ids == SelectSeq([t \in 1..Len(s.teams) |-> t],
                       LAMBDA t : /\ MemberRows(s, t, user) # {}
                                  /\ s.teams[t].status # "DELETED"
                                  /\ (s.teams[t].is_active
                                      \/ get_user_team_role(s, t, user) = "OWNER"))
      team_ids == {ids[i] : i \in 1..Len(ids)}
      owner_ids == {s.teams[t].owner_id : t \in team_ids}
      owners == [o \in owner_ids \cap DOMAIN UserName |-> UserName[o]]
      member_counts == GroupCounts(s.team_members,
                         {m \in BagToSet(s.team_members) : m.team_id \in team_ids},
                         <<>>)
  IN [i \in 1..Len(ids) |->
        LET role == get_user_team_role(s, ids[i], user)
            owner_id == s.teams[ids[i]].owner_id
        IN [TeamResponse(s, ids[i], role) EXCEPT
              !.created_by = IF role = "OWNER" THEN "You"
                             ELSE IF owner_id \in DOMAIN owners THEN owners[owner_id]
                             ELSE "",
              !.member_count = IF ids[i] \in DOMAIN member_counts
                               THEN member_counts[ids[i]] ELSE 0]]

\* TeamService.list_my_join_requests: the requests created by the user,
\* newest first
list_my_join_requests(s, user) ==
  LET n == Len(s.join_requests)
      ids == SelectSeq([i \in 1..n |-> n + 1 - i],
                       LAMBDA r : s.join_requests[r].requested_by = user)
  IN [i \in 1..Len(ids) |-> JoinRequestResponse(s, ids[i])]

\* the rows list_team_members returns
list_team_members_rows(s, team_id) ==
  {[user_id |-> m.user_id, role |-> m.role] :
     m \in {x \in BagToSet(s.team_members) : x.team_id = team_id}}

\* list_team_join_requests whose query drops the status filter
list_team_join_requests_rows_unfiltered(s, team_id, status_filter) ==
  {JoinRequestResponse(s, r) :
     r \in {x \in 1..Len(s.join_requests) : s.join_requests[x].team_id = team_id}}

\* the rows list_team_join_requests returns: the requests of the team, and
\* of the given status when status_filter is not None
list_team_join_requests_rows(s, team_id, status_filter) ==
  {JoinRequestResponse(s, r) :
     r \in {x \in 1..Len(s.join_requests) :
              /\ s.join_requests[x].team_id = team_id
              /\ status_filter # None => s.join_requests[x].status = status_filter}}

\* ============================================================ user service
\* UserService (src/src/apps/user/services/user.py) over the users table.
\* An email is the sequence of its characters, so that str.lower() and the
\* match against EMAIL_REGEX are computed, and two emails that differ in
\* case are different values, as they are to the store's comparison.
Letters == {"b", "o", "x", "i", "B"}
Emails ==
  {<<"b", "@", "x", ".", "i", "o">>, <<"B", "@", "x", ".", "i", "o">>,
   <<"o", "@", "x", ".", "i", "o">>, <<"b", "x", ".", "i", "o">>}
Passwords == {"Passw0rd!1", "Passw0rd!2", "weak"}
Usernames == {"user_1", "user_2"}
Phones == {"5550001", "5550002"}
UserIds == 1..MaxUsers

\* str.lower() on one character
lower_char(ch) == IF ch = "B" THEN "b" ELSE ch

\* str.lower()
lower(email) == [k \in 1..Len(email) |-> lower_char(email[k])]

\* re.match(EMAIL_REGEX, email): a local part of letters and dots that does
\* not end in a dot, "@", a domain of letters and dots, ".", and two to four
\* letters
EMAIL_REGEX(email) ==
  \E at \in 1..Len(email), dot \in 1..Len(email) :
    /\ at > 1
    /\ email[at] = "@"
    /\ \A k \in 1..(at - 1) : email[k] \in Letters \cup {"."}
    /\ email[at - 1] # "."
    /\ dot > at + 1
    /\ \A k \in (at + 1)..(dot - 1) : email[k] \in Letters \cup {"."}
    /\ email[dot] = "."
    /\ Len(email) - dot \in 2..4
    /\ \A k \in (dot + 1)..Len(email) : email[k] \in Letters

\* core.utils.password.strong_password
strong_password(password) == password # "weak"

\* core.utils.hashing.hash_password
hash_password(password) == <<"hash", password>>

\* core.utils.hashing.verify_password
verify_password(hashed_password, plain_password) ==
  hashed_password = hash_password(plain_password)

\* UserModel.create: the row of a new user; the email is stored in lower case
UserModel_create(username, phone, email, password) ==
  [username |-> username, phone |-> phone, email |-> lower(email),
   password |-> password, role |-> "USER", is_active |-> TRUE]

\* users.email, users.username and users.phone are declared unique=True
uq_users(us) ==
  \A i, j \in 1..Len(us) :
    i # j => /\ us[i].email # us[j].email
             /\ us[i].username # us[j].username
             /\ us[i].phone # us[j].phone

\* UserService._validate_input_fields, then the look-up of an existing user
\* with the submitted email, phone or username: the results create_user may
\* end its checks with ("ok", or the exception raised); the look-up has no
\* ORDER BY, so any matching row may be the one returned.  The name, the
\* country code, and the values of Usernames and Phones match their patterns.
create_user_checks(us, username, phone, email, password) ==
  IF ~EMAIL_REGEX(email) THEN {"InvalidEmailException"}
  ELSE IF ~strong_password(password) THEN {"WeakPasswordException"}
  ELSE LET existing == {i \in 1..Len(us) : \/ us[i].email = email
                                           \/ us[i].phone = phone
                                           \/ us[i].username = username}
       IN IF existing = {} THEN {"ok"}
          ELSE {IF us[i].email = email THEN "DuplicateEmailException"
                ELSE IF us[i].phone = phone THEN "DuplicatePhoneException"
                ELSE "DuplicateUsernameException" : i \in existing}

\* UserService.create_user: the row added to the session
create_user_writes(us, username, phone, email, password) ==
  Append(us, UserModel_create(username, phone, email, hash_password(password)))

\* UserService.login_user with an email and a password in the payload: the
\* issued tokens' user id, or the exception
login_user(us, email, password) ==
  LET found == {i \in 1..Len(us) : us[i].email = email /\ us[i].role = "USER"}
  IN IF found = {} THEN [result |-> "InvalidCredentialsException", user_id |-> NULL]
     ELSE LET user == CHOOSE i \in found : TRUE
          IN IF ~verify_password(us[user].password, password)
             THEN [result |-> "InvalidCredentialsException", user_id |-> NULL]
             ELSE [result |-> "ok", user_id |-> user]

\* UserService.get_self: the BaseUserResponse, or the exception
get_self(us, user_id) ==
  IF user_id \notin 1..Len(us)
    THEN [result |-> "UserNotFoundException", returned |-> <<>>]
  ELSE IF ~us[user_id].is_active
    THEN [result |-> "UserNotActiveException", returned |-> <<>>]
  ELSE [result |-> "ok",
        returned |-> <<[id |-> user_id, email |-> us[user_id].email,
                        username |-> us[user_id].username,
                        phone |-> us[user_id].phone, role |-> us[user_id].role]>>]

\* no call of the user service has been made
NoReply ==
  [op |-> "idle", username |-> None, phone |-> None, email |-> <<>>,
   password |-> None, user_id |-> NULL, result |-> "none", returned |-> <<>>]

\* the empty users table
NoUsers ==
  /\ users = <<>>
  /\ signups = {}
  /\ reply = NoReply

CreateUser(username, phone, email, password) ==
  /\ \E checked \in create_user_checks(users, username, phone, email, password) :
       IF checked # "ok"
       THEN /\ reply' = [NoReply EXCEPT !.op = "create_user", !.username = username,
                                        !.phone = phone, !.email = email,
                                        !.password = password, !.result = checked]
            /\ UNCHANGED <<users, signups>>
       ELSE /\ Len(users) < MaxUsers
            /\ IF uq_users(create_user_writes(users, username, phone, email, password))
               THEN /\ users' = create_user_writes(users, username, phone, email, password)
                    /\ signups' = signups \cup {[email |-> email, password |-> password,
                                                 user_id |-> Len(users) + 1]}
                    /\ reply' = [NoReply EXCEPT !.op = "create_user", !.username = username,
                                        !.phone = phone, !.email = email,
                                                !.password = password,
                                                !.user_id = Len(users) + 1,
                                                !.result = "ok"]
               ELSE /\ reply' = [NoReply EXCEPT !.op = "create_user", !.username = username,
                                        !.phone = phone, !.email = email,
                                                !.password = password,
                                                !.result = "IntegrityError"]
                    /\ UNCHANGED <<users, signups>>
  /\ UNCHANGED <<teams, team_members, join_requests, now, txn, last>>

LoginUser(email, password) ==
  /\ reply' = [NoReply EXCEPT !.op = "login_user", !.email = email,
                              !.password = password,
                              !.user_id = login_user(users, email, password).user_id,
                              !.result = login_user(users, email, password).result]
  /\ UNCHANGED <<teams, team_members, join_requests, now, txn, last, users, signups>>

\* GET /user/self with the token the sign-in has just issued
GetSelf(user_id) ==
  /\ reply.op = "login_user"
  /\ reply.result = "ok"
  /\ reply.user_id = user_id
  /\ reply' = [NoReply EXCEPT !.op = "get_self", !.user_id = user_id,
                              !.result = get_self(users, user_id).result,
                              !.returned = get_self(users, user_id).returned]
  /\ UNCHANGED <<teams, team_members, join_requests, now, txn, last, users, signups>>

\* ------------------------------------------------------------------ calls
\* one call of a service entry point: the handler and its arguments
Idle ==
  [op |-> "idle", user |-> None, team_id |-> NULL, user_id |-> None,
   request_id |-> NULL, action |-> None, team_code |-> NULL,
   name |-> None, description |-> None, is_active |-> FALSE,
   status_filter |-> None]

CreateTeamCall(user, name, description, team_code) ==
  [Idle EXCEPT !.op = "create_team", !.user = user, !.name = name,
               !.description = description, !.team_code = team_code]

UpdateTeamCall(team_id, user, name, description) ==
  [Idle EXCEPT !.op = "update_team", !.user = user, !.team_id = team_id,
               !.name = name, !.description = description]

ToggleCall(team_id, owner, is_active) ==
  [Idle EXCEPT !.op = "toggle_team_active_status", !.user = owner,
               !.team_id = team_id, !.is_active = is_active]

DeleteTeamCall(team_id, owner) ==
  [Idle EXCEPT !.op = "delete_team", !.user = owner, !.team_id = team_id]

PromoteCall(team_id, user_id, owner) ==
  [Idle EXCEPT !.op = "promote_to_admin", !.user = owner, !.team_id = team_id,
               !.user_id = user_id]

DemoteCall(team_id, user_id, owner) ==
  [Idle EXCEPT !.op = "demote_from_admin", !.user = owner, !.team_id = team_id,
               !.user_id = user_id]

RemoveCall(team_id, user_id, owner) ==
  [Idle EXCEPT !.op = "remove_member_from_team", !.user = owner,
               !.team_id = team_id, !.user_id = user_id]

JoinCall(team_code, user) ==
  [Idle EXCEPT !.op = "create_join_request", !.user = user,
               !.team_code = team_code]

ReviewCall(request_id, owner, action) ==
  [Idle EXCEPT !.op = "review_join_request", !.user = owner,
               !.request_id = request_id, !.action = action]

GetTeamCall(team_id, user) ==
  [Idle EXCEPT !.op = "get_team_by_id", !.user = user, !.team_id = team_id]

ListMembersCall(team_id, user) ==
  [Idle EXCEPT !.op = "list_team_members", !.user = user, !.team_id = team_id]

ListRequestsCall(team_id, owner, status_filter) ==
  [Idle EXCEPT !.op = "list_team_join_requests", !.user = owner,
               !.team_id = team_id, !.status_filter = status_filter]

GetJoinRequestCall(request_id, user) ==
  [Idle EXCEPT !.op = "get_join_request_by_id", !.user = user,
               !.request_id = request_id]

ListMyTeamsCall(user) ==
  [Idle EXCEPT !.op = "list_my_teams", !.user = user]

ListMyJoinRequestsCall(user) ==
  [Idle EXCEPT !.op = "list_my_join_requests", !.user = user]

\* the handler's reads and checks: "ok", or the error it raises
Checks(s, c) ==
  CASE c.op = "create_team" -> "ok"
    [] c.op = "update_team" -> update_team_checks(s, c.team_id, c.user)
    [] c.op = "toggle_team_active_status" ->
         toggle_team_active_status_checks(s, c.team_id, c.user)
    [] c.op = "delete_team" -> delete_team_checks(s, c.team_id, c.user)
    [] c.op = "promote_to_admin" ->
         promote_to_admin_checks(s, c.team_id, c.user_id, c.user)
    [] c.op = "demote_from_admin" ->
         demote_from_admin_checks(s, c.team_id, c.user_id, c.user)
    [] c.op = "remove_member_from_team" ->
         remove_member_from_team_checks(s, c.team_id, c.user_id, c.user)
    [] c.op = "create_join_request" ->
         create_join_request_checks(s, c.team_code, c.user)
    [] c.op = "review_join_request" ->
         review_join_request_checks(s, c.request_id, c.user, c.action)
    [] c.op = "get_team_by_id" -> get_team_by_id(s, c.team_id, c.user)
    [] c.op = "list_team_members" -> list_team_members(s, c.team_id, c.user)
    [] c.op = "list_team_join_requests" ->
         list_team_join_requests(s, c.team_id, c.user)
    [] c.op = "get_join_request_by_id" ->
         get_join_request_by_id(s, c.request_id, c.user)
    [] c.op \in {"list_my_teams", "list_my_join_requests"} -> "ok"

\* the handler's writes, as the session holds them until the flush
Writes(s, c) ==
  CASE c.op = "create_team" ->
         create_team_writes(s, c.user, c.name, c.description, c.team_code)
    [] c.op = "update_team" ->
         update_team_writes(s, c.team_id, c.name, c.description)
    [] c.op = "toggle_team_active_status" ->
         toggle_team_active_status_writes(s, c.team_id, c.is_active)
    [] c.op = "delete_team" -> delete_team_writes(s, c.team_id)
    [] c.op = "promote_to_admin" -> promote_to_admin_writes(s, c.team_id, c.user_id)
    [] c.op = "demote_from_admin" -> demote_from_admin_writes(s, c.team_id, c.user_id)
    [] c.op = "remove_member_from_team" ->
         remove_member_from_team_writes(s, c.team_id, c.user_id)
    [] c.op = "create_join_request" ->
         create_join_request_writes(s, c.team_code, c.user)
    [] c.op = "review_join_request" ->
         review_join_request_writes(s, c.request_id, c.user, c.action)
    [] OTHER -> s

\* the UPDATE of a row loaded earlier matches no row any more
Stale(s, c) == c.op = "review_join_request" /\ ~RequestExists(s, c.request_id)

\* flush and commit: the store takes the writes, or rejects them all
Flush(s, c) ==
  IF Stale(s, c) THEN [result |-> "StaleDataError", store |-> s]
  ELSE IF ~Constraints(Writes(s, c)) THEN [result |-> "IntegrityError", store |-> s]
  ELSE [result |-> "ok", store |-> Writes(s, c)]

\* a whole call with no other call in between
Run(s, c) ==
  IF Checks(s, c) # "ok" THEN [result |-> Checks(s, c), store |-> s]
  ELSE Flush(s, c)

\* calls of handler op that have passed their checks and hold unflushed writes
InFlight(op) == Cardinality({w \in Workers : txn[w].op = op})

\* the rows a call may still add within the bounds of the model
WithinBounds(c) ==
  /\ c.op = "create_team" => Len(teams) + InFlight("create_team") < MaxTeams
  /\ c.op = "create_join_request" =>
       Len(join_requests) + InFlight("create_join_request") < MaxRequests
  /\ c.op = "review_join_request" =>
       now + InFlight("review_join_request") <= MaxReviews

SetStore(s) ==
  /\ teams' = s.teams
  /\ team_members' = s.team_members
  /\ join_requests' = s.join_requests
  /\ now' = s.now

\* no call has returned since the last response was handed over
NoResponse ==
  [op |-> "idle", user |-> None, team_id |-> NULL, user_id |-> None,
   request_id |-> NULL, team_code |-> NULL, action |-> None, name |-> None,
   description |-> None, is_active |-> FALSE, status_filter |-> None,
   result |-> "none", returned |-> <<>>]

\* the lists a read handler may return on success; other calls return no list
Returned(s, c) ==
  CASE c.op = "get_team_by_id" ->
         {<<TeamResponse(s, c.team_id, get_user_team_role(s, c.team_id, c.user))>>}
    [] c.op = "get_join_request_by_id" -> {<<JoinRequestResponse(s, c.request_id)>>}
    [] c.op = "list_my_teams" -> {list_my_teams(s, c.user)}
    [] c.op = "list_my_join_requests" -> {list_my_join_requests(s, c.user)}
    [] c.op = "list_team_members" -> Orderings(list_team_members_rows(s, c.team_id))
    [] c.op = "list_team_join_requests" ->
         Orderings(list_team_join_requests_rows(s, c.team_id, c.status_filter))
    [] OTHER -> {<<>>}

\* the call returns to its caller with this result
Returns(c, result) ==
  \E rows \in (IF result = "ok" THEN Returned(Store, c) ELSE {<<>>}) :
    last' = [op |-> c.op, user |-> c.user, team_id |-> c.team_id,
             user_id |-> c.user_id, request_id |-> c.request_id,
             team_code |-> c.team_code, action |-> c.action, name |-> c.name,
             description |-> c.description, is_active |-> c.is_active,
             status_filter |-> c.status_filter,
             result |-> result, returned |-> rows]

\* a call served from entry to commit with no other call in between
Serve(c) ==
  /\ Checks(Store, c) = "ok" => WithinBounds(c)
  /\ SetStore(Run(Store, c).store)
  /\ Returns(c, Run(Store, c).result)
  /\ UNCHANGED <<txn, users, signups, reply>>

\* a call enters, reads and runs its checks; if they pass, its writes wait
\* in the session for the flush
Begin(w, c) ==
  /\ txn[w] = Idle
  /\ UNCHANGED <<users, signups, reply>>
  /\ IF Checks(Store, c) # "ok"
     THEN /\ Returns(c, Checks(Store, c))
          /\ UNCHANGED <<teams, team_members, join_requests, now, txn>>
     ELSE /\ WithinBounds(c)
          /\ txn' = [txn EXCEPT ![w] = c]
          /\ UNCHANGED <<teams, team_members, join_requests, now, last>>

\* the call's writes are flushed and its transaction ends
Commit(w) ==
  /\ last = NoResponse
  /\ txn[w] # Idle
  /\ SetStore(Flush(Store, txn[w]).store)
  /\ Returns(txn[w], Flush(Store, txn[w]).result)
  /\ txn' = [txn EXCEPT ![w] = Idle]
  /\ UNCHANGED <<users, signups, reply>>

\* an aborted call that keeps the rows it had flushed
AbortKeepsFlushedRows(w) ==
  /\ last = NoResponse
  /\ txn[w] # Idle
  /\ SetStore(Flush(Store, txn[w]).store)
  /\ Returns(txn[w], "aborted")
  /\ txn' = [txn EXCEPT ![w] = Idle]
  /\ UNCHANGED <<users, signups, reply>>

\* the call is aborted (timed out) before its commit: its transaction is
\* rolled back and none of its writes reaches the store
Abort(w) ==
  /\ last = NoResponse
  /\ txn[w] # Idle
  /\ Returns(txn[w], "aborted")
  /\ txn' = [txn EXCEPT ![w] = Idle]
  /\ UNCHANGED <<teams, team_members, join_requests, now, users, signups, reply>>

\* the response is handed to the caller
Respond ==
  /\ last # NoResponse
  /\ last' = NoResponse
  /\ UNCHANGED <<teams, team_members, join_requests, now, txn, users, signups, reply>>

\* ---------------------------------------------------------------- actions
\* the service takes a call once the previous response is handed over
Ready == last = NoResponse

CreateTeam(user, name, description) ==
  /\ Ready
  /\ \E team_code \in generate_team_code(Store, Codes) :
       Serve(CreateTeamCall(user, name, description, team_code))

UpdateTeam(team_id, user, name, description) ==
  /\ Ready
  /\ Serve(UpdateTeamCall(team_id, user, name, description))

ToggleTeamActiveStatus(team_id, owner, is_active) ==
  /\ Ready
  /\ Serve(ToggleCall(team_id, owner, is_active))

DeleteTeam(team_id, owner) ==
  /\ Ready
  /\ Serve(DeleteTeamCall(team_id, owner))

PromoteToAdmin(team_id, user_id, owner) ==
  /\ Ready
  /\ Serve(PromoteCall(team_id, user_id, owner))

DemoteFromAdmin(team_id, user_id, owner) ==
  /\ Ready
  /\ Serve(DemoteCall(team_id, user_id, owner))

RemoveMemberFromTeam(team_id, user_id, owner) ==
  /\ Ready
  /\ Serve(RemoveCall(team_id, user_id, owner))

CreateJoinRequest(team_code, user) ==
  /\ Ready
  /\ Serve(JoinCall(team_code, user))

ReviewJoinRequest(request_id, owner, action) ==
  /\ Ready
  /\ Serve(ReviewCall(request_id, owner, action))

GetTeamById(team_id, user) ==
  /\ Ready
  /\ Serve(GetTeamCall(team_id, user))

ListTeamMembers(team_id, user) ==
  /\ Ready
  /\ Serve(ListMembersCall(team_id, user))

ListTeamJoinRequests(team_id, owner, status_filter) ==
  /\ Ready
  /\ Serve(ListRequestsCall(team_id, owner, status_filter))

GetJoinRequestById(request_id, user) ==
  /\ Ready
  /\ Serve(GetJoinRequestCall(request_id, user))

ListMyTeams(user) ==
  /\ Ready
  /\ Serve(ListMyTeamsCall(user))

ListMyJoinRequests(user) ==
  /\ Ready
  /\ Serve(ListMyJoinRequestsCall(user))

BeginCreateJoinRequest(w, team_code, user) ==
  /\ Ready
  /\ Begin(w, JoinCall(team_code, user))

BeginReviewJoinRequest(w, request_id, owner, action) ==
  /\ Ready
  /\ Begin(w, ReviewCall(request_id, owner, action))

BeginRemoveMemberFromTeam(w, team_id, user_id, owner) ==
  /\ Ready
  /\ Begin(w, RemoveCall(team_id, user_id, owner))

\* create_team up to its flush: the code is generated against the committed
\* teams, and the new rows wait in the session
BeginCreateTeam(w, user, name, description) ==
  /\ Ready
  /\ txn[w] = Idle
  /\ Len(teams) + InFlight("create_team") < Cardinality(BothTeamIds)
  /\ \E team_code \in generate_team_code(Store, BothTeamCodes) :
       txn' = [txn EXCEPT ![w] = CreateTeamCall(user, name, description, team_code)]
  /\ UNCHANGED <<teams, team_members, join_requests, now, last, users, signups, reply>>

Init ==
  /\ teams = <<>>
  /\ team_members = EmptyBag
  /\ join_requests = <<>>
  /\ now = 1
  /\ txn = [w \in Workers |-> Idle]
  /\ last = NoResponse
  /\ NoUsers

Next ==
  \/ \E u \in Users, n \in CreateNames, d \in {None} : CreateTeam(u, n, d)
  \/ \E t \in TeamIds, u \in Users, n \in UpdateNames \cup {None},
        d \in Descriptions \cup {None} : UpdateTeam(t, u, n, d)
  \/ \E t \in TeamIds, u \in Users, a \in BOOLEAN : ToggleTeamActiveStatus(t, u, a)
  \/ \E t \in TeamIds, u \in Users : DeleteTeam(t, u)
  \/ \E t \in TeamIds, x \in Users, u \in Users : PromoteToAdmin(t, x, u)
  \/ \E t \in TeamIds, x \in Users, u \in Users : DemoteFromAdmin(t, x, u)
  \/ \E t \in TeamIds, x \in Users, u \in Users : RemoveMemberFromTeam(t, x, u)
  \/ \E k \in Codes, u \in Users : CreateJoinRequest(k, u)
  \/ \E r \in RequestIds, u \in Users, a \in JoinRequestStatus :
        ReviewJoinRequest(r, u, a)
  \/ \E t \in TeamIds, u \in Users : GetTeamById(t, u)
  \/ \E t \in TeamIds, u \in Users : ListTeamMembers(t, u)
  \/ \E t \in TeamIds, u \in Users : ListTeamJoinRequests(t, u, None)
  \/ \E u \in Users : ListMyTeams(u)
  \/ \E u \in Users : ListMyJoinRequests(u)
  \/ Respond

Spec == Init /\ [][Next]_vars

\* ----------------------------------------------- resolving pending requests
\* review_join_request called by the owner of the request's team on a request
\* that is PENDING; each request leaves PENDING at most once, so these calls
\* need no bound of their own
OwnerReviewsPending(request_id, action) ==
  /\ Ready
  /\ RequestExists(Store, request_id)
  /\ join_requests[request_id].status = "PENDING"
  /\ SetStore(Run(Store, ReviewCall(request_id,
                      teams[join_requests[request_id].team_id].owner_id, action)).store)
  /\ Returns(ReviewCall(request_id,
                teams[join_requests[request_id].team_id].owner_id, action),
             Run(Store, ReviewCall(request_id,
                   teams[join_requests[request_id].team_id].owner_id, action)).result)
  /\ UNCHANGED <<txn, users, signups, reply>>

\* the owner's review of the request that resolves it
Resolve(request_id) ==
  \E a \in {"APPROVED", "DECLINED"} :
    OwnerReviewsPending(request_id, a) /\ last'.result = "ok"

\* ------------------------------------------------- concurrent join workflow
\* the store after create_team by user A: the team whose join requests the
\* concurrent calls are about
InitConc ==
  /\ teams = <<TeamModel("A", "Widgets", None, 1)>>
  /\ team_members = SetToBag({TeamMemberModel(1, "A", "OWNER")})
  /\ join_requests = <<>>
  /\ now = 1
  /\ txn = [w \in Workers |-> Idle]
  /\ last = NoResponse
  /\ NoUsers

NextConc ==
  \/ \E w \in Workers, k \in Codes, u \in Users : BeginCreateJoinRequest(w, k, u)
  \/ \E w \in Workers, r \in RequestIds, u \in Users, a \in JoinRequestStatus :
        BeginReviewJoinRequest(w, r, u, a)
  \/ \E w \in Workers, t \in TeamIds, x \in Users, u \in Users :
        BeginRemoveMemberFromTeam(w, t, x, u)
  \/ \E w \in Workers : Commit(w)
  \/ Respond

SpecConc == InitConc /\ [][NextConc]_vars

\* ------------------------------------------- membership across two teams
\* the store after create_team by user A and create_team by user C: the
\* join, review and member-management calls on two teams
InitTeams ==
  /\ teams = <<TeamModel("A", "Widgets", None, 1), TeamModel("C", "Widgets", None, 2)>>
  /\ team_members = SetToBag({TeamMemberModel(1, "A", "OWNER"),
                              TeamMemberModel(2, "C", "OWNER")})
  /\ join_requests = <<>>
  /\ now = 1
  /\ txn = [w \in Workers |-> Idle]
  /\ last = NoResponse
  /\ NoUsers

NextTeams ==
  \/ \E k \in BothTeamCodes, u \in Users : CreateJoinRequest(k, u)
  \/ \E r \in RequestIds, u \in Users, a \in {"APPROVED", "DECLINED"} :
        ReviewJoinRequest(r, u, a)
  \/ \E t \in BothTeamIds, x \in Users, u \in Users : PromoteToAdmin(t, x, u)
  \/ \E t \in BothTeamIds, x \in Users, u \in Users : DemoteFromAdmin(t, x, u)
  \/ \E t \in BothTeamIds, x \in Users, u \in Users : RemoveMemberFromTeam(t, x, u)
  \/ Respond

SpecTeams == InitTeams /\ [][NextTeams]_vars

\* ------------------------------------------------ listings over two teams
\* the two teams of InitTeams gain members, are deactivated or deleted, and
\* users list their teams
NextListing ==
  \/ \E k \in BothTeamCodes, u \in Users : CreateJoinRequest(k, u)
  \/ \E r \in RequestIds, u \in Users, a \in {"APPROVED", "DECLINED"} :
        ReviewJoinRequest(r, u, a)
  \/ \E t \in BothTeamIds, x \in Users, u \in Users : PromoteToAdmin(t, x, u)
  \/ \E t \in BothTeamIds, u \in Users, a \in BOOLEAN : ToggleTeamActiveStatus(t, u, a)
  \/ \E t \in BothTeamIds, u \in Users : DeleteTeam(t, u)
  \/ \E u \in Users : ListMyTeams(u)
  \/ Respond

SpecListing == InitTeams /\ [][NextListing]_vars

\* --------------------------------------- join-request listings of two teams
\* the two teams of InitTeams receive join requests, the owners review them,
\* promote members or delete the team, and users list a team's requests with
\* and without a status filter and read single requests
StatusFilters == JoinRequestStatus \cup {None}

NextRequests ==
  \/ \E k \in BothTeamCodes, u \in Users : CreateJoinRequest(k, u)
  \/ \E r \in RequestIds, u \in Users, a \in {"APPROVED", "DECLINED"} :
        ReviewJoinRequest(r, u, a)
  \/ \E t \in BothTeamIds, x \in Users, u \in Users : PromoteToAdmin(t, x, u)
  \/ \E t \in BothTeamIds, u \in Users : DeleteTeam(t, u)
  \/ \E t \in BothTeamIds, u \in Users, f \in StatusFilters :
        ListTeamJoinRequests(t, u, f)
  \/ \E r \in RequestIds, u \in Users : GetJoinRequestById(r, u)
  \/ Respond

SpecRequests == InitTeams /\ [][NextRequests]_vars

\* ----------------------------------------------------------- aborted calls
\* the team of InitConc: join, review and remove calls run concurrently and
\* may be aborted before their commit; the other mutations run one at a time
NextAbort ==
  \/ \E w \in Workers, k \in Codes, u \in Users : BeginCreateJoinRequest(w, k, u)
  \/ \E w \in Workers, r \in RequestIds, u \in Users, a \in JoinRequestStatus :
        BeginReviewJoinRequest(w, r, u, a)
  \/ \E w \in Workers, t \in TeamIds, x \in Users, u \in Users :
        BeginRemoveMemberFromTeam(w, t, x, u)
  \/ \E w \in Workers : Commit(w)
  \/ \E w \in Workers : Abort(w)
  \/ \E t \in TeamIds, u \in Users, n \in UpdateNames, d \in {None} :
        UpdateTeam(t, u, n, d)
  \/ \E t \in TeamIds, u \in Users, a \in {FALSE} : ToggleTeamActiveStatus(t, u, a)
  \/ \E t \in TeamIds, u \in Users : DeleteTeam(t, u)
  \/ \E t \in TeamIds, x \in Users, u \in Users : PromoteToAdmin(t, x, u)
  \/ \E t \in TeamIds, x \in Users, u \in Users : DemoteFromAdmin(t, x, u)
  \/ Respond

SpecAbort == InitConc /\ [][NextAbort]_vars

\* ------------------------------------------------- concurrent create_team
\* from the empty store: two create_team calls may both generate their code
\* before either flushes; the teams made are updated, deactivated, deleted,
\* joined and their members managed
CreatorUsers == {"A", "B"}

NextCreate ==
  \/ \E w \in Workers, u \in CreatorUsers, n \in CreateNames, d \in {None} :
        BeginCreateTeam(w, u, n, d)
  \/ \E w \in Workers : Commit(w)
  \/ \E t \in BothTeamIds, u \in CreatorUsers, n \in UpdateNames, d \in {None} :
        UpdateTeam(t, u, n, d)
  \/ \E t \in BothTeamIds, u \in CreatorUsers, a \in {FALSE} :
        ToggleTeamActiveStatus(t, u, a)
  \/ \E t \in BothTeamIds, u \in CreatorUsers : DeleteTeam(t, u)
  \/ \E k \in BothTeamCodes, u \in CreatorUsers : CreateJoinRequest(k, u)
  \/ \E r \in RequestIds, u \in CreatorUsers, a \in {"APPROVED"} :
        ReviewJoinRequest(r, u, a)
  \/ \E t \in BothTeamIds, x \in CreatorUsers, u \in CreatorUsers :
        PromoteToAdmin(t, x, u)
  \/ \E t \in BothTeamIds, x \in CreatorUsers, u \in CreatorUsers :
        RemoveMemberFromTeam(t, x, u)
  \/ Respond

SpecCreate == Init /\ [][NextCreate]_vars

\* ------------------------------------------- sign-up, sign-in and get-self
NextUser ==
  \/ \E n \in Usernames, p \in Phones, e \in Emails, pw \in Passwords :
        CreateUser(n, p, e, pw)
  \/ \E e \in Emails, pw \in Passwords : LoginUser(e, pw)
  \/ \E id \in UserIds : GetSelf(id)

SpecUser == Init /\ [][NextUser]_vars

\* ------------------------------------------------ life cycle of a membership
\* from the empty store: a team is created, users ask to join, the owner
\* reviews, promotes, demotes and removes, and users list their teams and
\* the team's members
NextLifecycle ==
  \/ \E u \in Users, n \in CreateNames, d \in {None} : CreateTeam(u, n, d)
  \/ \E k \in Codes, u \in Users : CreateJoinRequest(k, u)
  \/ \E r \in RequestIds, u \in Users, a \in {"APPROVED", "DECLINED"} :
        ReviewJoinRequest(r, u, a)
  \/ \E t \in TeamIds, x \in Users, u \in Users : PromoteToAdmin(t, x, u)
  \/ \E t \in TeamIds, x \in Users, u \in Users : DemoteFromAdmin(t, x, u)
  \/ \E t \in TeamIds, x \in Users, u \in Users : RemoveMemberFromTeam(t, x, u)
  \/ \E u \in Users : ListMyTeams(u)
  \/ \E t \in TeamIds, u \in Users : ListTeamMembers(t, u)
  \/ Respond

SpecLifecycle == Init /\ [][NextLifecycle]_vars

\* --------------------------------------------------- resolution of requests
\* join requests for one team, reviews by anyone, the owner's reviews of
\* pending requests and the team's deletion; every response is eventually
\* handed over, and the owner's resolving review of a request is served
\* if it is possible again and again
NextResolve ==
  \/ \E k \in Codes, u \in Users : CreateJoinRequest(k, u)
  \/ \E r \in RequestIds, u \in Users, a \in {"APPROVED", "DECLINED"} :
        ReviewJoinRequest(r, u, a)
  \/ \E r \in RequestIds, a \in {"APPROVED", "DECLINED"} : OwnerReviewsPending(r, a)
  \/ \E t \in TeamIds, u \in Users : DeleteTeam(t, u)
  \/ Respond

SpecResolve ==
  /\ InitConc
  /\ [][NextResolve]_vars
  /\ WF_vars(Respond)
  /\ \A r \in RequestIds : SF_vars(Resolve(r))

\* ================================================================= claims
BusinessErrors ==
  {"TeamNotFound", "UnauthorizedTeamAccess", "CannotModifyOwner",
   "TeamMemberNotFound", "DuplicateJoinRequest", "UserAlreadyMember",
   "InvalidTeamCode", "JoinRequestNotFound", "TeamDeactivated", "BadRequestError"}

\* number of team_members rows of team_id with this role
RoleCount(s, team_id, role) ==
  LET rows == {m \in BagToSet(s.team_members) : m.team_id = team_id /\ m.role = role}
      RECURSIVE Sum(_)
      Sum(S) == IF S = {} THEN 0
                ELSE LET m == CHOOSE x \in S : TRUE
                     IN CopiesIn(m, s.team_members) + Sum(S \ {m})
  IN Sum(rows)

\* the team a join call with this code resolves to, NULL when it raises
\* InvalidTeamCode
ResolvedTeam(s, team_code) ==
  IF TeamsByCode(s, team_code) = {} THEN NULL
  ELSE LET t == CHOOSE x \in TeamsByCode(s, team_code) : TRUE
       IN IF s.teams[t].status = "DELETED" THEN NULL ELSE t

\* C1: every team has exactly one TeamMember row with role OWNER, and that
\* row's user is the team's owner_id, after any sequence of calls.
C1_OwnerInvariant ==
  \A t \in 1..Len(teams) :
    /\ RoleCount(Store, t, "OWNER") = 1
    /\ CopiesIn(TeamMemberModel(t, teams[t].owner_id, "OWNER"), team_members) = 1

\* C1 witness: a team whose owner has promoted one member and removed another
C1_Witness ==
  /\ last.op = "remove_member_from_team"
  /\ last.result = "ok"
  /\ RoleCount(Store, last.team_id, "ADMIN") = 1

\* C2 (as claimed): a join request's status changes only from PENDING to
\* APPROVED or DECLINED, and a review call never changes a request that is
\* already APPROVED or DECLINED.
C2_ReviewedIsFinal ==
  [][\A r \in 1..Len(join_requests) :
       /\ (/\ join_requests'[r] # DeletedRow
           /\ join_requests'[r].status # join_requests[r].status)
          => (/\ join_requests[r].status = "PENDING"
              /\ join_requests'[r].status \in {"APPROVED", "DECLINED"})
       /\ (/\ last'.op = "review_join_request"
           /\ join_requests[r].status \in {"APPROVED", "DECLINED"})
          => join_requests'[r] = join_requests[r]]_vars

\* C3 (as claimed): a create-join-request call that returns a failure while a
\* PENDING request of its (team, requester) is stored, as the loser of two
\* concurrent calls does, fails with DuplicateJoinRequest, and one PENDING
\* row of the pair exists.
C3_RaceLoserGetsDuplicate ==
  (/\ last.op = "create_join_request"
   /\ last.result # "ok"
   /\ ResolvedTeam(Store, last.team_code) # NULL
   /\ PendingRequests(Store, ResolvedTeam(Store, last.team_code), last.user) # {})
  => /\ last.result = "DuplicateJoinRequest"
     /\ Cardinality(PendingRequests(Store, ResolvedTeam(Store, last.team_code),
                                    last.user)) = 1

\* C4 (as claimed): a review(APPROVED) call by the owner that returns a
\* failure while the requester has a TeamMember row, as the loser of two
\* concurrent approvals does, fails with a business error, and the pair has
\* exactly one TeamMember row.
C4_ApproveLoserGetsBusinessError ==
  (/\ last.op = "review_join_request"
   /\ last.action = "APPROVED"
   /\ last.result # "ok"
   /\ RequestExists(Store, last.request_id)
   /\ validate_team_role(Store, join_requests[last.request_id].team_id,
                         last.user, {"OWNER"})
   /\ MemberRows(Store, join_requests[last.request_id].team_id,
                 join_requests[last.request_id].requested_by) # {})
  => /\ last.result \in BusinessErrors
     /\ MemberCopies(Store, join_requests[last.request_id].team_id,
                     join_requests[last.request_id].requested_by) = 1

\* C5 (as claimed): on a DELETED team getById, listMembers and listForTeam
\* fail with TeamNotFound for every caller, and create-join-request with the
\* team's code fails with InvalidTeamCode.
C5_DeletedLooksAbsent ==
  /\ (/\ last.op \in {"get_team_by_id", "list_team_members",
                      "list_team_join_requests"}
      /\ TeamExists(Store, last.team_id)
      /\ teams[last.team_id].status = "DELETED")
     => last.result = "TeamNotFound"
  /\ (/\ last.op = "create_join_request"
      /\ \E t \in TeamsByCode(Store, last.team_code) : teams[t].status = "DELETED")
     => last.result = "InvalidTeamCode"

\* C6: at most one PENDING join request per (team, requester), under any
\* interleaving of create-join-request, review and remove calls.
C6_AtMostOnePending ==
  \A t \in 1..Len(teams), u \in Users :
    Cardinality(PendingRequests(Store, t, u)) <= 1

\* C6 witness: two reviewed requests of one (team, requester) pair coexist
C6_Witness ==
  \E r1, r2 \in 1..Len(join_requests) :
    /\ r1 # r2
    /\ join_requests[r1].team_id = join_requests[r2].team_id
    /\ join_requests[r1].requested_by = join_requests[r2].requested_by
    /\ join_requests[r1].status \in {"APPROVED", "DECLINED"}
    /\ join_requests[r2].status \in {"APPROVED", "DECLINED"}

\* promote, demote or remove is returning, and its target is the team's owner
TargetsOwner(c) ==
  /\ c.op \in {"promote_to_admin", "demote_from_admin", "remove_member_from_team"}
  /\ TeamExists(Store, c.team_id)
  /\ c.user_id = teams[c.team_id].owner_id

\* C7 (as claimed): promote, demote and remove whose target is the team's
\* owner fail with CannotModifyOwner for every caller.
C7_OwnerTargetAlwaysCannotModify ==
  TargetsOwner(last) => last.result = "CannotModifyOwner"

\* C7 (amended): promote, demote and remove whose target is the team's owner
\* change nothing and fail: with TeamNotFound on a deleted team, else with
\* UnauthorizedTeamAccess when the caller's role is not OWNER, else with
\* CannotModifyOwner.
C7_OwnerTargetNeverModified ==
  [][TargetsOwner(last') =>
       /\ UNCHANGED <<teams, team_members, join_requests>>
       /\ last'.result =
            IF teams[last'.team_id].status = "DELETED" THEN "TeamNotFound"
            ELSE IF get_user_team_role(Store, last'.team_id, last'.user) # "OWNER"
                 THEN "UnauthorizedTeamAccess"
            ELSE "CannotModifyOwner"]_vars

\* C7 witness: a caller with role ADMIN targeted the owner and was refused
\* as unauthorized
C7_Witness ==
  /\ TargetsOwner(last)
  /\ get_user_team_role(Store, last.team_id, last.user) = "ADMIN"
  /\ last.result = "UnauthorizedTeamAccess"

\* C8 (as claimed): after remove takes a member off a non-deleted team, a
\* create-join-request by that user with the team's code passes every check.
C8_RejoinAfterRemove ==
  (/\ last.op = "remove_member_from_team"
   /\ last.result = "ok")
  => create_join_request_checks(Store, teams[last.team_id].team_code,
                                last.user_id) = "ok"

\* C9: create-join-request checks the team code, then a PENDING request, then
\* membership: with both a PENDING request and a membership the caller gets
\* DuplicateJoinRequest, and a failing call inserts no row.
C9_CheckOrder ==
  [][last'.op = "create_join_request" =>
       LET t == ResolvedTeam(Store, last'.team_code)
           pending == t # NULL /\ PendingRequests(Store, t, last'.user) # {}
           member == t # NULL /\ MemberRows(Store, t, last'.user) # {}
       IN /\ t = NULL => last'.result = "InvalidTeamCode"
          /\ pending => last'.result = "DuplicateJoinRequest"
          /\ (member /\ ~pending) => last'.result = "UserAlreadyMember"
          /\ (t = NULL \/ pending \/ member)
             => UNCHANGED <<teams, team_members, join_requests>>]_vars

\* C9 witness: a user with a PENDING request and a membership in the team
\* called create-join-request and got DuplicateJoinRequest
C9_Witness ==
  /\ last.op = "create_join_request"
  /\ last.result = "DuplicateJoinRequest"
  /\ ResolvedTeam(Store, last.team_code) # NULL
  /\ MemberRows(Store, ResolvedTeam(Store, last.team_code), last.user) # {}
  /\ PendingRequests(Store, ResolvedTeam(Store, last.team_code), last.user) # {}

\* a request of (t, u) that was not APPROVED is APPROVED after the step
BecomesApproved(t, u) ==
  \E r \in 1..Len(join_requests) :
    /\ join_requests[r].team_id = t
    /\ join_requests[r].requested_by = u
    /\ join_requests[r].status # "APPROVED"
    /\ join_requests'[r].status = "APPROVED"

\* C10: review(APPROVED) is atomic: a request becomes APPROVED in a step
\* exactly when that step inserts the TeamMember(role=MEMBER) row of its
\* (team, requester), and a review call that fails changes no row.
C10_ApproveAtomic ==
  [][/\ \A t \in 1..Len(teams), u \in Users :
          /\ BecomesApproved(t, u)
             <=> team_members' = team_members (+) SetToBag({TeamMemberModel(t, u, "MEMBER")})
          /\ BecomesApproved(t, u)
             => /\ last'.op = "review_join_request"
                /\ last'.action = "APPROVED"
                /\ last'.result = "ok"
     /\ (last'.op = "review_join_request" /\ last'.result # "ok")
        => UNCHANGED <<teams, team_members, join_requests>>
     /\ (/\ last'.op = "review_join_request"
         /\ last'.result = "ok"
         /\ last'.action = "APPROVED")
        => /\ join_requests'[last'.request_id].status = "APPROVED"
           /\ join_requests'[last'.request_id].reviewed_by = last'.user
           /\ BecomesApproved(join_requests[last'.request_id].team_id,
                              join_requests[last'.request_id].requested_by)]_vars

\* C10 witness: the unique constraint rejected the second of two concurrent
\* approvals, and the request approved by the first has its one member row
C10_Witness ==
  /\ last.op = "review_join_request"
  /\ last.action = "APPROVED"
  /\ last.result = "IntegrityError"
  /\ RequestExists(Store, last.request_id)
  /\ join_requests[last.request_id].status = "APPROVED"
  /\ MemberCopies(Store, join_requests[last.request_id].team_id,
                  join_requests[last.request_id].requested_by) = 1

\* C11: a team's status only moves from ACTIVE to DELETED; a DELETED team
\* stays DELETED under every later call, and is_active changes, in either
\* direction, only on a team whose status is ACTIVE.
C11_DeletedIsTerminal ==
  [][/\ Len(teams') >= Len(teams)
     /\ \A t \in 1..Len(teams) :
          /\ teams'[t].status # teams[t].status
             => (teams[t].status = "ACTIVE" /\ teams'[t].status = "DELETED")
          /\ teams[t].status = "DELETED" => teams'[t].status = "DELETED"
          /\ teams'[t].is_active # teams[t].is_active
             => (teams[t].status = "ACTIVE" /\ teams'[t].status = "ACTIVE")]_vars

\* C11 witness: the owner deactivated the team, deleted it, and the call to
\* reactivate it is refused
C11_Witness ==
  /\ last.op = "toggle_team_active_status"
  /\ last.is_active
  /\ last.result = "TeamNotFound"
  /\ TeamExists(Store, last.team_id)
  /\ teams[last.team_id].status = "DELETED"
  /\ ~teams[last.team_id].is_active
  /\ last.user = teams[last.team_id].owner_id

\* C12: on a team that is not deleted, getById by a member of the team fails
\* with TeamDeactivated when is_active is false and the caller's role is
\* MEMBER, and succeeds, returning the team, when the caller's role is OWNER
\* or ADMIN or when is_active is true.
C12_DeactivatedHidesFromMembers ==
  (/\ last.op = "get_team_by_id"
   /\ TeamExists(Store, last.team_id)
   /\ teams[last.team_id].status # "DELETED"
   /\ MemberRows(Store, last.team_id, last.user) # {})
  => LET role == get_user_team_role(Store, last.team_id, last.user)
     IN IF ~teams[last.team_id].is_active /\ role = "MEMBER"
        THEN last.result = "TeamDeactivated" /\ last.returned = <<>>
        ELSE /\ last.result = "ok"
             /\ Len(last.returned) = 1
             /\ last.returned[1].id = last.team_id
             /\ last.returned[1].role = role

\* C12 witness: a MEMBER of a deactivated team called getById and was refused
\* while the team also has an ADMIN
C12_Witness ==
  /\ last.op = "get_team_by_id"
  /\ last.result = "TeamDeactivated"
  /\ RoleCount(Store, last.team_id, "ADMIN") = 1

\* C13 (as claimed): no read returns data of a DELETED team: getById,
\* listMembers and listForTeam on it fail, and neither the caller's team
\* listing nor the caller's own join-request listing has a row of it.
C13_DeletedTeamNeverRead ==
  /\ (/\ last.op \in {"get_team_by_id", "list_team_members",
                       "list_team_join_requests"}
      /\ TeamExists(Store, last.team_id)
      /\ teams[last.team_id].status = "DELETED")
     => (last.result # "ok" /\ last.returned = <<>>)
  /\ last.op = "list_my_teams"
     => \A i \in 1..Len(last.returned) :
          teams[last.returned[i].id].status # "DELETED"
  /\ last.op = "list_my_join_requests"
     => \A i \in 1..Len(last.returned) :
          teams[last.returned[i].team_id].status # "DELETED"

\* C14: review (APPROVED or DECLINED) fails with JoinRequestNotFound when the
\* request does not exist, else with TeamNotFound when the request's team is
\* DELETED, else with UnauthorizedTeamAccess when the caller's role in that
\* team is not OWNER; a failing review changes no row, and a request's status
\* changes only in a review by the owner of its team.
C14_ReviewGuards ==
  [][/\ (last'.op = "review_join_request" /\ last'.action \in {"APPROVED", "DECLINED"})
        => IF ~RequestExists(Store, last'.request_id)
           THEN /\ last'.result = "JoinRequestNotFound"
                /\ UNCHANGED <<teams, team_members, join_requests>>
           ELSE LET t == join_requests[last'.request_id].team_id
                IN IF teams[t].status = "DELETED"
                   THEN /\ last'.result = "TeamNotFound"
                        /\ UNCHANGED <<teams, team_members, join_requests>>
                   ELSE get_user_team_role(Store, t, last'.user) # "OWNER"
                        => /\ last'.result = "UnauthorizedTeamAccess"
                           /\ UNCHANGED <<teams, team_members, join_requests>>
     /\ \A r \in 1..Len(join_requests) :
          (/\ join_requests'[r] # DeletedRow
           /\ join_requests'[r].status # join_requests[r].status)
          => /\ last'.op = "review_join_request"
             /\ last'.request_id = r
             /\ last'.result = "ok"
             /\ get_user_team_role(Store, join_requests[r].team_id, last'.user)
                  = "OWNER"]_vars

\* C14 witness: an ADMIN of the team tried to review a PENDING request and
\* was refused
C14_Witness ==
  /\ last.op = "review_join_request"
  /\ last.action = "APPROVED"
  /\ last.result = "UnauthorizedTeamAccess"
  /\ RequestExists(Store, last.request_id)
  /\ join_requests[last.request_id].status = "PENDING"
  /\ get_user_team_role(Store, join_requests[last.request_id].team_id, last.user)
       = "ADMIN"

\* C15: a successful remove deletes exactly the target's TeamMember row and
\* the APPROVED join requests of (team, target); PENDING and DECLINED requests
\* of the pair, rows of other users, the target's rows in other teams and
\* the teams are unchanged.
C15_RemoveFrame ==
  [][(last'.op = "remove_member_from_team" /\ last'.result = "ok")
     => LET t == last'.team_id
            u == last'.user_id
        IN /\ teams' = teams
           /\ Len(join_requests') = Len(join_requests)
           /\ \A r \in 1..Len(join_requests) :
                join_requests'[r] =
                  IF /\ join_requests[r].team_id = t
                     /\ join_requests[r].requested_by = u
                     /\ join_requests[r].status = "APPROVED"
                  THEN DeletedRow ELSE join_requests[r]
           /\ MemberCopies(Store, t, u) = 1
           /\ BagToSet(team_members') \subseteq BagToSet(team_members)
           /\ \A m \in BagToSet(team_members) :
                CopiesIn(m, team_members') =
                  IF m.team_id = t /\ m.user_id = u THEN 0
                  ELSE CopiesIn(m, team_members)]_vars

\* C15 witness: the removed user keeps a DECLINED request for the team and a
\* membership in the other team, and another user is still a member
C15_Witness ==
  /\ last.op = "remove_member_from_team"
  /\ last.result = "ok"
  /\ \E r \in 1..Len(join_requests) :
       /\ join_requests[r].team_id = last.team_id
       /\ join_requests[r].requested_by = last.user_id
       /\ join_requests[r].status = "DECLINED"
  /\ \E r \in 1..Len(join_requests) : join_requests[r] = DeletedRow
  /\ \E t \in 1..Len(teams) :
       t # last.team_id /\ MemberRows(Store, t, last.user_id) # {}

\* the owner of a team that is not deleted calls op on another user
OwnerCallsOn(c, op) ==
  /\ c.op = op
  /\ TeamExists(Store, c.team_id)
  /\ teams[c.team_id].status # "DELETED"
  /\ get_user_team_role(Store, c.team_id, c.user) = "OWNER"
  /\ c.user_id # c.user

\* C16: promote by the owner on a member sets the member's role to ADMIN;
\* on a member who is already ADMIN it succeeds and changes nothing; on a
\* user with no membership row it fails with TeamMemberNotFound and changes
\* nothing.
C16_PromoteIdempotent ==
  [][OwnerCallsOn(last', "promote_to_admin")
     => LET t == last'.team_id
            u == last'.user_id
            role == get_user_team_role(Store, t, u)
        IN /\ UNCHANGED <<teams, join_requests>>
           /\ role = None
              => (last'.result = "TeamMemberNotFound" /\ UNCHANGED team_members)
           /\ role = "MEMBER"
              => /\ last'.result = "ok"
                 /\ team_members' =
                      (team_members (-) SetToBag({TeamMemberModel(t, u, "MEMBER")}))
                        (+) SetToBag({TeamMemberModel(t, u, "ADMIN")})
           /\ role = "ADMIN"
              => (last'.result = "ok" /\ UNCHANGED team_members)]_vars

\* C16 witness: the owner promoted a user who is ADMIN after the call while
\* another user of the team is a MEMBER
C16_Witness ==
  /\ OwnerCallsOn(last, "promote_to_admin")
  /\ last.result = "ok"
  /\ get_user_team_role(Store, last.team_id, last.user_id) = "ADMIN"
  /\ RoleCount(Store, last.team_id, "MEMBER") = 1

\* C17: demote by the owner on a member sets the member's role to MEMBER
\* whether it was ADMIN or MEMBER; on a user with no membership row it fails
\* with TeamMemberNotFound; no promote or demote call adds or removes a
\* membership row.
C17_DemoteSetsMember ==
  [][/\ OwnerCallsOn(last', "demote_from_admin")
        => LET t == last'.team_id
               u == last'.user_id
               role == get_user_team_role(Store, t, u)
           IN /\ UNCHANGED <<teams, join_requests>>
              /\ role = None
                 => (last'.result = "TeamMemberNotFound" /\ UNCHANGED team_members)
              /\ role \in {"ADMIN", "MEMBER"}
                 => /\ last'.result = "ok"
                    /\ team_members' =
                         (team_members (-) SetToBag({TeamMemberModel(t, u, role)}))
                           (+) SetToBag({TeamMemberModel(t, u, "MEMBER")})
     /\ last'.op \in {"promote_to_admin", "demote_from_admin"}
        => \A t \in 1..Len(teams), u \in Users :
             MemberCopies(Store, t, u)' = MemberCopies(Store, t, u)]_vars

\* C17 witness: the owner demoted a user who is MEMBER after the call while
\* another user of the team is ADMIN
C17_Witness ==
  /\ OwnerCallsOn(last, "demote_from_admin")
  /\ last.result = "ok"
  /\ get_user_team_role(Store, last.team_id, last.user_id) = "MEMBER"
  /\ RoleCount(Store, last.team_id, "ADMIN") = 1

\* C18: update on an existing team fails with TeamNotFound when the team is
\* DELETED, else with UnauthorizedTeamAccess unless the caller's role is
\* OWNER or ADMIN; on success it overwrites name and description where the
\* request supplies them, keeps the previous value of a field left out, and
\* changes no other field of the team, no membership and no join request.
C18_UpdateFrame ==
  [][(last'.op = "update_team" /\ TeamExists(Store, last'.team_id))
     => LET t == last'.team_id
        IN /\ UNCHANGED <<team_members, join_requests>>
           /\ Len(teams') = Len(teams)
           /\ \A x \in 1..Len(teams) : x # t => teams'[x] = teams[x]
           /\ IF teams[t].status = "DELETED"
              THEN last'.result = "TeamNotFound" /\ teams' = teams
              ELSE IF get_user_team_role(Store, t, last'.user) \notin {"OWNER", "ADMIN"}
              THEN last'.result = "UnauthorizedTeamAccess" /\ teams' = teams
              ELSE /\ last'.result = "ok"
                   /\ teams'[t] =
                        [teams[t] EXCEPT
                           !.name = IF last'.name # None THEN last'.name ELSE @,
                           !.description = IF last'.description # None
                                           THEN last'.description ELSE @]]_vars

\* C18 witness: an ADMIN supplied only a description, and the name set by an
\* earlier update is still there
C18_Witness ==
  /\ last.op = "update_team"
  /\ last.result = "ok"
  /\ last.name = None
  /\ last.description = "tools"
  /\ get_user_team_role(Store, last.team_id, last.user) = "ADMIN"
  /\ teams[last.team_id].name = "Gadgets"
  /\ teams[last.team_id].description = "tools"

C20_ListMineExact ==
  last.op = "list_my_teams"
  => LET visible ==
           {t \in 1..Len(teams) :
              /\ MemberRows(Store, t, last.user) # {}
              /\ teams[t].status # "DELETED"
              /\ (teams[t].is_active
                  \/ get_user_team_role(Store, t, last.user) = "OWNER")}
     IN /\ last.result = "ok"
        /\ Len(last.returned) = Cardinality(visible)
        /\ {last.returned[i].id : i \in 1..Len(last.returned)} = visible
        /\ \A i \in 1..Len(last.returned) :
             last.returned[i].role =
               get_user_team_role(Store, last.returned[i].id, last.user)

\* C20 witness: a user who is ADMIN of a deactivated team and owner of
\* another team lists their teams and gets only the team they own
C20_Witness ==
  /\ last.op = "list_my_teams"
  /\ Len(last.returned) = 1
  /\ last.returned[1].role = "OWNER"
  /\ \E t \in 1..Len(teams) :
       /\ get_user_team_role(Store, t, last.user) = "ADMIN"
       /\ ~teams[t].is_active
       /\ teams[t].status # "DELETED"

\* C26 (as claimed): a delete call by the owner on a team that is already
\* DELETED fails with TeamNotFound, and the team stays DELETED.
C26_SecondDeleteFails ==
  [][(/\ last'.op = "delete_team"
      /\ TeamExists(Store, last'.team_id)
      /\ teams[last'.team_id].status = "DELETED"
      /\ teams[last'.team_id].owner_id = last'.user)
     => (/\ last'.result = "TeamNotFound"
         /\ teams'[last'.team_id].status = "DELETED")]_vars

\* approved join requests of (team_id, user_id)
ApprovedRequests(s, team_id, user_id) ==
  {r \in 1..Len(s.join_requests) :
     /\ s.join_requests[r].team_id = team_id
     /\ s.join_requests[r].requested_by = user_id
     /\ s.join_requests[r].status = "APPROVED"}

\* C29 (as claimed): no user has at the same time a TeamMember row and a
\* PENDING join request for the same team.
C29_NoMemberWithPending ==
  \A t \in 1..Len(teams), u \in Users :
    ~(MemberRows(Store, t, u) # {} /\ PendingRequests(Store, t, u) # {})

\* C30 (as claimed): for every team and every user other than its owner, the
\* user has a TeamMember row in the team if and only if exactly one APPROVED
\* join request of the (team, user) pair exists.
C30_MembershipMirrorsApproved ==
  \A t \in 1..Len(teams) : \A u \in Users \ {teams[t].owner_id} :
    MemberRows(Store, t, u) # {}
      <=> Cardinality(ApprovedRequests(Store, t, u)) = 1

\* ids of the join requests in a returned list
ReturnedIds(rows) == {rows[i].id : i \in 1..Len(rows)}

\* C25: list_team_join_requests on a team that is not deleted, called by
\* its owner, returns exactly the team's join requests whose status equals
\* the filter, or all join requests of the team, and none of another team,
\* when no filter is given, each once and as stored; a caller whose role is
\* not OWNER fails with UnauthorizedTeamAccess and gets no rows.
C25_ListForTeam ==
  (/\ last.op = "list_team_join_requests"
   /\ TeamExists(Store, last.team_id)
   /\ teams[last.team_id].status # "DELETED")
  => IF get_user_team_role(Store, last.team_id, last.user) = "OWNER"
     THEN /\ last.result = "ok"
          /\ ReturnedIds(last.returned) =
               {r \in 1..Len(join_requests) :
                  /\ join_requests[r].team_id = last.team_id
                  /\ (last.status_filter = None
                      \/ join_requests[r].status = last.status_filter)}
          /\ Len(last.returned) = Cardinality(ReturnedIds(last.returned))
          /\ \A i \in 1..Len(last.returned) :
               /\ last.returned[i].team_id = last.team_id
               /\ last.returned[i].status = join_requests[last.returned[i].id].status
               /\ last.returned[i].requested_by =
                    join_requests[last.returned[i].id].requested_by
     ELSE /\ last.result = "UnauthorizedTeamAccess"
          /\ last.returned = <<>>

\* C25 witness: the owner of team 1 lists its APPROVED requests and gets one
\* row while the team also has a request of another status
C25_Witness ==
  /\ last.op = "list_team_join_requests"
  /\ last.team_id = 1
  /\ last.result = "ok"
  /\ last.status_filter = "APPROVED"
  /\ Len(last.returned) = 1
  /\ \E r \in 1..Len(join_requests) :
       join_requests[r].team_id = 1 /\ join_requests[r].status # "APPROVED"

\* the rows of a returned list, as a set
ReturnedRows(rows) == {rows[i] : i \in 1..Len(rows)}

\* C24: each step of a membership's life cycle has the stated outcome.  A
\* successful create_team by A leaves the new team with one member, A, with
\* role OWNER; a successful create_join_request by B adds a PENDING request
\* of B for the team; a successful review with APPROVED gives the requester
\* one TeamMember row with role MEMBER, and the active team is in the
\* requester's list_my_teams; a successful promote gives the target role
\* ADMIN, a successful demote role MEMBER, a successful remove leaves the
\* target with no TeamMember row; and list_team_members returns the members
\* the team has, so only the owner once the others are removed.
C24_Lifecycle ==
  [][/\ (last'.op = "create_team" /\ last'.result = "ok")
        => /\ Len(teams') = Len(teams) + 1
           /\ MemberCount(Store', Len(teams')) = 1
           /\ get_user_team_role(Store', Len(teams'), last'.user) = "OWNER"
           /\ TeamResponse(Store', Len(teams'), "OWNER").member_count = 1
     /\ (last'.op = "create_join_request" /\ last'.result = "ok")
        => /\ Len(join_requests') = Len(join_requests) + 1
           /\ join_requests'[Len(join_requests')] =
                JoinRequestModel(ResolvedTeam(Store, last'.team_code), last'.user)
           /\ join_requests'[Len(join_requests')].status = "PENDING"
     /\ (/\ last'.op = "review_join_request"
         /\ last'.result = "ok"
         /\ last'.action = "APPROVED")
        => LET t == join_requests[last'.request_id].team_id
               u == join_requests[last'.request_id].requested_by
           IN /\ MemberCopies(Store', t, u) = 1
              /\ get_user_team_role(Store', t, u) = "MEMBER"
              /\ teams[t].is_active
                 => \E i \in 1..Len(list_my_teams(Store', u)) :
                      list_my_teams(Store', u)[i].id = t
     /\ (last'.op = "promote_to_admin" /\ last'.result = "ok")
        => get_user_team_role(Store', last'.team_id, last'.user_id) = "ADMIN"
     /\ (last'.op = "demote_from_admin" /\ last'.result = "ok")
        => get_user_team_role(Store', last'.team_id, last'.user_id) = "MEMBER"
     /\ (last'.op = "remove_member_from_team" /\ last'.result = "ok")
        => MemberRows(Store', last'.team_id, last'.user_id) = {}
     /\ (last'.op = "list_team_members" /\ last'.result = "ok")
        => /\ ReturnedRows(last'.returned) =
                {[user_id |-> u, role |-> get_user_team_role(Store, last'.team_id, u)] :
                   u \in {x \in Users : MemberRows(Store, last'.team_id, x) # {}}}
           /\ Len(last'.returned) = MemberCount(Store, last'.team_id)]_vars

\* C24 witness: after a member was approved and later removed (the approved
\* request is deleted with the membership), list_team_members returns the
\* owner alone
C24_Witness ==
  /\ last.op = "list_team_members"
  /\ last.result = "ok"
  /\ last.returned = <<[user_id |-> teams[last.team_id].owner_id, role |-> "OWNER"]>>
  /\ \E r \in 1..Len(join_requests) : join_requests[r] = DeletedRow

\* C22: no two teams, deleted ones included, share a team_code, and no step
\* of any operation changes the team_code of a stored team.
C22_TeamCodeUniqueImmutable ==
  [][/\ \A t1, t2 \in 1..Len(teams') :
          t1 # t2 => teams'[t1].team_code # teams'[t2].team_code
     /\ Len(teams') >= Len(teams)
     /\ \A t \in 1..Len(teams) : teams'[t].team_code = teams[t].team_code]_vars

\* C22 witness: two teams are stored, the first is deleted, and an update of
\* the second has just succeeded
C22_Witness ==
  /\ Len(teams) = 2
  /\ teams[1].status = "DELETED"
  /\ last.op = "update_team"
  /\ last.team_id = 2
  /\ last.result = "ok"

\* C23 (as claimed): a create_team call whose generated code is taken by a
\* team committed in the meantime still ends with "ok" and its own team
\* under a code no other team has.
C23_CreateRetriesOnCollision ==
  [][\A w \in Workers :
       (/\ txn[w].op = "create_team"
        /\ txn'[w] = Idle
        /\ TeamsByCode(Store, txn[w].team_code) # {})
       => (/\ last'.result = "ok"
           /\ Len(teams') = Len(teams) + 1
           /\ teams'[Len(teams')].owner_id = txn[w].user
           /\ uq_team_code(Store'))]_vars

\* C21: a call that returns a business error, or that is aborted, leaves
\* every teams, team_members and join_requests row as it was before the
\* call's last step.
C21_AllOrNothing ==
  [][last'.result \in BusinessErrors \cup {"aborted"}
     => UNCHANGED <<teams, team_members, join_requests>>]_vars

\* C21 witness: an approving review that had passed its checks, with its
\* member row and status change waiting in the session, was aborted
C21_Witness ==
  /\ last.op = "review_join_request"
  /\ last.action = "APPROVED"
  /\ last.result = "aborted"
  /\ RequestExists(Store, last.request_id)
  /\ join_requests[last.request_id].status = "PENDING"
  /\ MemberRows(Store, join_requests[last.request_id].team_id,
                join_requests[last.request_id].requested_by) = {}

\* C27: get_join_request_by_id on a stored request succeeds, returning the
\* request, exactly when the caller is the request's requester or has role
\* OWNER in the request's team; every other caller (ADMIN, MEMBER or no
\* member) fails with UnauthorizedTeamAccess and is returned nothing.
C27_GetByIdVisibility ==
  (last.op = "get_join_request_by_id" /\ RequestExists(Store, last.request_id))
  => LET join_request == join_requests[last.request_id]
     IN IF \/ join_request.requested_by = last.user
           \/ get_user_team_role(Store, join_request.team_id, last.user) = "OWNER"
        THEN /\ last.result = "ok"
             /\ last.returned = <<JoinRequestResponse(Store, last.request_id)>>
        ELSE /\ last.result = "UnauthorizedTeamAccess"
             /\ last.returned = <<>>

\* C27 witness: an admin of the request's team, who is not the requester,
\* asked for the request and was refused
C27_Witness ==
  /\ last.op = "get_join_request_by_id"
  /\ last.result = "UnauthorizedTeamAccess"
  /\ RequestExists(Store, last.request_id)
  /\ get_user_team_role(Store, join_requests[last.request_id].team_id, last.user)
       = "ADMIN"

\* C28 (as claimed): after a successful create_user with email E and
\* password P, every login_user with the same E and P succeeds, and get_self
\* for that user returns an email equal to the E submitted at sign-up,
\* whatever the case of E's letters.
C28_SignUpSignInGetSelf ==
  [][/\ (/\ reply'.op = "login_user"
         /\ \E s \in signups :
              s.email = reply'.email /\ s.password = reply'.password)
        => reply'.result = "ok"
     /\ (reply'.op = "get_self" /\ reply'.result = "ok")
        => \A s \in signups :
             s.user_id = reply'.user_id => reply'.returned[1].email = s.email]_vars

\* C31: a stored join request has reviewed_by and reviewed_at set exactly
\* when its status is APPROVED or DECLINED, and a reviewed_by that is set is
\* the owner_id of the request's team.
C31_ReviewedFields ==
  \A r \in 1..Len(join_requests) :
    join_requests[r] # DeletedRow
    => /\ (join_requests[r].reviewed_by # None)
            <=> (join_requests[r].status \in {"APPROVED", "DECLINED"})
       /\ (join_requests[r].reviewed_at # NULL)
            <=> (join_requests[r].status \in {"APPROVED", "DECLINED"})
       /\ join_requests[r].reviewed_by # None
            => join_requests[r].reviewed_by =
                 teams[join_requests[r].team_id].owner_id

\* C31 witness: a request of team 2 reviewed by that team's owner is stored
\* next to a request that is still PENDING
C31_Witness ==
  /\ \E r \in 1..Len(join_requests) :
       /\ join_requests[r].team_id = 2
       /\ join_requests[r].status = "DECLINED"
       /\ join_requests[r].reviewed_by = teams[2].owner_id
       /\ join_requests[r].reviewed_at # NULL
  /\ \E r \in 1..Len(join_requests) :
       join_requests[r].status = "PENDING" /\ join_requests[r].reviewed_by = None

\* the team_members rows of team_id, with their multiplicities
MembersOf(s, team_id) ==
  [m \in {x \in BagToSet(s.team_members) : x.team_id = team_id} |->
     CopiesIn(m, s.team_members)]

\* C32: with calls running one at a time, no step changes anything of a
\* team that is DELETED: its name, description, is_active and status, its
\* TeamMember rows and their roles, and its join requests stay as they are
\* (a PENDING request stays PENDING), and no join request is added for it.
C32_DeletedIsFrozen ==
  [][\A t \in 1..Len(teams) :
       teams[t].status = "DELETED"
       => /\ teams'[t] = teams[t]
          /\ MembersOf(Store', t) = MembersOf(Store, t)
          /\ \A r \in 1..Len(join_requests) :
               join_requests[r].team_id = t => join_requests'[r] = join_requests[r]
          /\ \A r \in (Len(join_requests) + 1)..Len(join_requests') :
               join_requests'[r].team_id # t]_vars

\* C32 witness: the owner's review of a request that was PENDING when the
\* team was deleted is refused, the team having a member besides the owner
C32_Witness ==
  /\ last.op = "review_join_request"
  /\ last.result = "TeamNotFound"
  /\ last.user = teams[1].owner_id
  /\ teams[1].status = "DELETED"
  /\ join_requests[last.request_id].status = "PENDING"
  /\ MemberCount(Store, 1) = 2

\* the team a call is about: named by id, resolved from the code, or the
\* team of the request under review (NULL when there is none)
CallTeam(s, c) ==
  IF c.op = "create_join_request"
  THEN (IF TeamsByCode(s, c.team_code) = {} THEN NULL
        ELSE CHOOSE t \in TeamsByCode(s, c.team_code) : TRUE)
  ELSE IF c.op = "review_join_request"
       THEN (IF RequestExists(s, c.request_id) THEN s.join_requests[c.request_id].team_id
             ELSE NULL)
  ELSE c.team_id

\* this step changes the row, the memberships or the requests of team t
ChangesTeam(t) ==
  \/ teams'[t] # teams[t]
  \/ MembersOf(Store', t) # MembersOf(Store, t)
  \/ \E r \in 1..Len(join_requests) :
       join_requests[r].team_id = t /\ join_requests'[r] # join_requests[r]
  \/ \E r \in (Len(join_requests) + 1)..Len(join_requests') : join_requests'[r].team_id = t

\* C33 (as stated): with calls running concurrently with delete, no step
\* after a team became DELETED changes its row, its memberships or its
\* requests.
C33_NoChangeAfterDelete ==
  [][\A t \in 1..Len(teams) : teams[t].status = "DELETED" => ~ChangesTeam(t)]_vars

\* C33 (amended): once a team is DELETED, no call enters its transaction on
\* that team past the deleted check, every call other than delete that is
\* served on it is refused, and the only steps that change the team's row,
\* memberships or requests are commits of calls that were already in flight
\* on that team.
C33_OnlyInFlightCallsChangeDeleted ==
  [][\A t \in 1..Len(teams) :
       teams[t].status = "DELETED"
       => /\ ChangesTeam(t)
             => \E w \in Workers :
                  /\ txn[w] # Idle
                  /\ txn'[w] = Idle
                  /\ CallTeam(Store, txn[w]) = t
                  /\ last'.result = "ok"
          /\ \A w \in Workers :
               (txn[w] = Idle /\ txn'[w] # Idle) => CallTeam(Store, txn'[w]) # t
          /\ (/\ txn' = txn
              /\ last = NoResponse
              /\ last' # NoResponse
              /\ last'.op # "delete_team"
              /\ CallTeam(Store, last') = t)
             => last'.result # "ok"]_vars

\* a review(APPROVED) that had passed its checks committed after the delete:
\* the deleted team has a new member
C33_Witness ==
  /\ teams[1].status = "DELETED"
  /\ last # NoResponse
  /\ last.op = "review_join_request"
  /\ last.action = "APPROVED"
  /\ last.result = "ok"
  /\ MemberRows(Store, 1, join_requests[last.request_id].requested_by) # {}

\* C34: every step that changes the TeamMember rows of an existing team, one
\* of its join requests, its is_active or its status is a call by a user
\* whose role in that team is OWNER; a caller with another role or none
\* changes at most name/description (role ADMIN) or adds a PENDING join
\* request of their own (no membership).
C34_OnlyOwnerChangesMembershipAndLifecycle ==
  [][\A t \in 1..Len(teams) :
       LET role == get_user_team_role(Store, t, last'.user)
       IN /\ (\/ MembersOf(Store', t) # MembersOf(Store, t)
              \/ \E r \in 1..Len(join_requests) :
                   join_requests[r].team_id = t /\ join_requests'[r] # join_requests[r]
              \/ teams'[t].is_active # teams[t].is_active
              \/ teams'[t].status # teams[t].status)
             => /\ last'.result = "ok"
                /\ role = "OWNER"
          /\ role # "OWNER"
             => /\ teams'[t] # teams[t]
                   => /\ role = "ADMIN"
                      /\ last'.op = "update_team"
                      /\ teams'[t] = [teams[t] EXCEPT !.name = teams'[t].name,
                                                      !.description = teams'[t].description]
                /\ \A r \in (Len(join_requests) + 1)..Len(join_requests') :
                     join_requests'[r].team_id = t
                     => /\ role = None
                        /\ last'.op = "create_join_request"
                        /\ join_requests'[r].requested_by = last'.user
                        /\ join_requests'[r].status = "PENDING"]_vars

\* C34 witness: an ADMIN's delete was refused and the team is still ACTIVE
C34_Witness ==
  /\ last.op = "delete_team"
  /\ last.result = "UnauthorizedTeamAccess"
  /\ TeamExists(Store, last.team_id)
  /\ get_user_team_role(Store, last.team_id, last.user) = "ADMIN"
  /\ teams[last.team_id].status = "ACTIVE"

\* C35: every team that list_my_teams returns to a user is one that
\* get_team_by_id returns to the same user in the same state, with the same
\* role, created_by and member_count; created_by is "You" exactly for the
\* OWNER and the owner's name otherwise, and member_count is the number of
\* the team's TeamMember rows.
C35_ListMineAgreesWithGetById ==
  (last.op = "list_my_teams" /\ last.result = "ok")
  => \A i \in 1..Len(last.returned) :
       LET row == last.returned[i]
       IN /\ get_team_by_id(Store, row.id, last.user) = "ok"
          /\ \A by_id \in Returned(Store, GetTeamCall(row.id, last.user)) :
               /\ row.role = by_id[1].role
               /\ row.created_by = by_id[1].created_by
               /\ row.member_count = by_id[1].member_count
          /\ (row.created_by = "You") <=> (row.role = "OWNER")
          /\ row.role # "OWNER" => row.created_by = UserName[teams[row.id].owner_id]
          /\ row.member_count = MemberCount(Store, row.id)

\* C35 witness: a user is listed the team they own and a team they joined,
\* which have different member counts
C35_Witness ==
  /\ last.op = "list_my_teams"
  /\ last.result = "ok"
  /\ Len(last.returned) = 2
  /\ last.returned[1].role = "OWNER"
  /\ last.returned[2].role # "OWNER"
  /\ last.returned[1].created_by # last.returned[2].created_by
  /\ last.returned[1].member_count # last.returned[2].member_count

\* C36: on a team that is deactivated and not deleted, list_team_members by
\* a MEMBER succeeds and returns the team's members, create_join_request
\* with the team's code by a user with no PENDING request and no membership
\* adds a PENDING request, and the owner's review of a PENDING request
\* (DECLINED, or APPROVED for a requester without membership), promote of a
\* MEMBER, demote of an ADMIN and remove of a member other than the owner
\* succeed with their usual effect.
C36_DeactivationGatesOnlyReads ==
  [][\A t \in 1..Len(teams) :
       (teams[t].status # "DELETED" /\ ~teams[t].is_active)
       => /\ (/\ last'.op = "list_team_members"
              /\ last'.team_id = t
              /\ get_user_team_role(Store, t, last'.user) = "MEMBER")
             => /\ last'.result = "ok"
                /\ Len(last'.returned) = MemberCount(Store, t)
          /\ (/\ last'.op = "create_join_request"
              /\ last'.team_code = teams[t].team_code
              /\ PendingRequests(Store, t, last'.user) = {}
              /\ MemberRows(Store, t, last'.user) = {})
             => /\ last'.result = "ok"
                /\ join_requests' = Append(join_requests, JoinRequestModel(t, last'.user))
          /\ (/\ last'.op = "review_join_request"
              /\ last'.user = teams[t].owner_id
              /\ RequestExists(Store, last'.request_id)
              /\ join_requests[last'.request_id].team_id = t
              /\ join_requests[last'.request_id].status = "PENDING"
              /\ \/ last'.action = "DECLINED"
                 \/ /\ last'.action = "APPROVED"
                    /\ MemberRows(Store, t, join_requests[last'.request_id].requested_by) = {})
             => /\ last'.result = "ok"
                /\ join_requests'[last'.request_id].status = last'.action
                /\ last'.action = "APPROVED"
                   => get_user_team_role(Store', t, join_requests[last'.request_id].requested_by)
                        = "MEMBER"
          /\ (/\ last'.op = "promote_to_admin"
              /\ last'.team_id = t
              /\ last'.user = teams[t].owner_id
              /\ get_user_team_role(Store, t, last'.user_id) = "MEMBER")
             => /\ last'.result = "ok"
                /\ get_user_team_role(Store', t, last'.user_id) = "ADMIN"
          /\ (/\ last'.op = "demote_from_admin"
              /\ last'.team_id = t
              /\ last'.user = teams[t].owner_id
              /\ get_user_team_role(Store, t, last'.user_id) = "ADMIN")
             => /\ last'.result = "ok"
                /\ get_user_team_role(Store', t, last'.user_id) = "MEMBER"
          /\ (/\ last'.op = "remove_member_from_team"
              /\ last'.team_id = t
              /\ last'.user = teams[t].owner_id
              /\ last'.user_id # teams[t].owner_id
              /\ MemberRows(Store, t, last'.user_id) # {})
             => /\ last'.result = "ok"
                /\ MemberRows(Store', t, last'.user_id) = {}]_vars

\* C36 witness: a MEMBER of a deactivated team was given its member list
C36_Witness ==
  /\ last.op = "list_team_members"
  /\ last.result = "ok"
  /\ ~teams[last.team_id].is_active
  /\ teams[last.team_id].status # "DELETED"
  /\ get_user_team_role(Store, last.team_id, last.user) = "MEMBER"
  /\ Len(last.returned) = 2

\* C37: a review whose action is neither APPROVED nor DECLINED fails with
\* BadRequestError whether or not the request exists, and changes no row;
\* no step gives the status PENDING to a request that did not have it.
C37_BadActionRejectedFirst ==
  [][/\ (last'.op = "review_join_request" /\ last'.action \notin {"APPROVED", "DECLINED"})
        => /\ last'.result = "BadRequestError"
           /\ UNCHANGED <<teams, team_members, join_requests, now>>
     /\ \A r \in 1..Len(join_requests) :
          join_requests'[r].status = "PENDING" => join_requests[r].status = "PENDING"]_vars

\* C37 witness: the owner asked to set a reviewed request to PENDING and got
\* a bad-request error
C37_Witness ==
  /\ last.op = "review_join_request"
  /\ last.action = "PENDING"
  /\ last.result = "BadRequestError"
  /\ RequestExists(Store, last.request_id)
  /\ join_requests[last.request_id].status \in {"APPROVED", "DECLINED"}
  /\ last.user = teams[join_requests[last.request_id].team_id].owner_id

\* a PENDING request of a team that is not deleted
Resolvable(r) ==
  /\ RequestExists(Store, r)
  /\ join_requests[r].status = "PENDING"
  /\ teams[join_requests[r].team_id].status # "DELETED"

\* C38: in every state, for every PENDING request of a team that is not
\* deleted, the owner's review(DECLINED) succeeds and the owner's
\* review(APPROVED) succeeds exactly when the requester has no membership
\* row in the team; and when the owner's resolving review is served under
\* strong fairness, every such request eventually leaves PENDING (or its
\* team is deleted first).
C38_PendingIsResolved ==
  /\ [](\A r \in RequestIds :
          Resolvable(r)
          => LET t == join_requests[r].team_id
                 owner == teams[t].owner_id
             IN /\ Run(Store, ReviewCall(r, owner, "DECLINED")).result = "ok"
                /\ Run(Store, ReviewCall(r, owner, "DECLINED")).store.join_requests[r].status
                     = "DECLINED"
                /\ (Run(Store, ReviewCall(r, owner, "APPROVED")).result = "ok")
                   <=> (MemberRows(Store, t, join_requests[r].requested_by) = {}))
  /\ \A r \in RequestIds : Resolvable(r) ~> ~Resolvable(r)

\* C38 witness: the owner declined a PENDING request whose requester was
\* already a member of the team
C38_Witness ==
  /\ last.op = "review_join_request"
  /\ last.action = "DECLINED"
  /\ last.result = "ok"
  /\ last.user = teams[join_requests[last.request_id].team_id].owner_id
  /\ join_requests[last.request_id].reviewed_at = now - 1
  /\ MemberRows(Store, join_requests[last.request_id].team_id,
                join_requests[last.request_id].requested_by) # {}

\* the duplicate errors that match a submitted username, phone and email:
\* one for each of the three that a stored user already has, the email
\* compared without regard to letter case
MatchingDuplicates(us, username, phone, email) ==
  {"DuplicateEmailException" : i \in {j \in 1..Len(us) : us[j].email = lower(email)}}
  \cup {"DuplicatePhoneException" : i \in {j \in 1..Len(us) : us[j].phone = phone}}
  \cup {"DuplicateUsernameException" : i \in {j \in 1..Len(us) : us[j].username = username}}

\* C39 (as claimed): no two stored users share an email, a phone or a
\* username, and a create_user with a valid email and a strong password
\* whose email (in any letter case), phone or username is that of a stored
\* user fails with a duplicate error of a field that matches and adds no
\* user.
C39_DuplicateUsersRejected ==
  [][/\ uq_users(users')
     /\ (/\ reply'.op = "create_user"
         /\ EMAIL_REGEX(reply'.email)
         /\ strong_password(reply'.password)
         /\ MatchingDuplicates(users, reply'.username, reply'.phone, reply'.email) # {})
        => /\ reply'.result \in MatchingDuplicates(users, reply'.username, reply'.phone,
                                                   reply'.email)
           /\ users' = users]_vars

====
